---- MODULE Spec2Model ----
(***************************************************************************)
(* Agent-orchestration pipeline of backend-node/src/ai: the AIService      *)
(* (generateCompletion, parseJSONResponse), the Planning, Design and       *)
(* Content agents and Orchestrator.orchestrate.                            *)
(*                                                                         *)
(* Numbers: a confidence c in [0,1] is held as the integer 120*c, so that  *)
(* 0.5 = 60, 0.75 = 90, 0.85 = 102, 1.0 = 120.  Every value used is a      *)
(* multiple of 6, so the division by confidences.length (1, 2 or 3) of     *)
(* Orchestrator.ts:69 is exact in the integers.                            *)
(***************************************************************************)
EXTENDS Integers, Sequences, FiniteSets, TLC

\* ------------------------------------------------------------------------
\* Bounds
\* ------------------------------------------------------------------------

\* longest pages array a generator payload carries
MaxPages == 2

\* ------------------------------------------------------------------------
\* JavaScript values
\* ------------------------------------------------------------------------

Undefined == [kind |-> "undefined"]
Null == [kind |-> "null"]
NaN == [kind |-> "NaN"]
Num(n) == [kind |-> "number", val |-> n]
Arr(s) == [kind |-> "array", items |-> s]

IsNum(v) == v.kind = "number"

\* a + b of JavaScript on number | undefined | NaN operands
JsAdd(a, b) == IF IsNum(a) /\ IsNum(b) THEN Num(a.val + b.val) ELSE NaN

\* a / n of JavaScript for an integer n >= 1
JsDiv(a, n) == IF IsNum(a) THEN Num(a.val \div n) ELSE NaN

\* ------------------------------------------------------------------------
\* Generator payloads and texts
\* ------------------------------------------------------------------------

Slugs == {"home", "contact"}

\* confidences a payload may report: 0, 0.5, 0.75, 0.85, 1.0, 1.5
ConfValues == {0, 60, 90, 102, 120, 180}

\* threshold 0.75 of the Planning agent
ConfidenceThreshold == 90

PageLists == UNION {[1..n -> Slugs] : n \in 0..MaxPages}

Confidences == {Num(c) : c \in ConfValues} \cup {Undefined}

PagesValues == {Arr(l) : l \in PageLists} \cup {Undefined}

\* what JSON.parse can return: null, a primitive, or an object of which the
\* fields the agents read are kept (a missing field reads as undefined)
Objects == [kind : {"object"}, confidence : Confidences, pages : PagesValues]

JsonValues == {Null, [kind |-> "primitive"]} \cup Objects

\* a generator text.  A fenced text carries prose around a ```json or ```
\* block whose inner part is `body`; an unfenced text is `body` as a whole.
\* `body` is the serialisation of a JSON value, or text that is not JSON.
NotJson == [json |-> FALSE, value |-> Null]

Bodies(values) == {[json |-> TRUE, value |-> v] : v \in values} \cup {NotJson}

Texts(values) == [fence : {"json", "plain", "none"}, body : Bodies(values)]

\* the captured group of the first fence that matches
Inner(response) == response.body

\* the full text; the backticks and the prose around a fenced block make it
\* invalid JSON as a whole
Whole(response) == IF response.fence = "none" THEN response.body ELSE NotJson

\* ------------------------------------------------------------------------
\* AIService
\* ------------------------------------------------------------------------

Thrown(msg) == [kind |-> "throw", message |-> msg]

\* the class of the error object each throw site constructs: generateCompletion
\* and parseJSONResponse both throw new Error(...); the runtime throws
\* TypeError and SyntaxError
ErrorClass(msg) ==
    IF msg \in {"TypeError", "SyntaxError"} THEN msg ELSE "Error"
Returned(v) == [kind |-> "return", value |-> v]

\* outcome of generateCompletion: the provider's text, or any provider fault
\* rethrown as Error('AI generation failed: ...')
generateCompletion(gen) ==
    IF gen.kind = "fault"
    THEN Thrown("AI generation failed")
    ELSE Returned(gen.text)

\* JSON.parse(jsonString.trim())
JSONparse(jsonString) ==
    IF jsonString.json THEN Returned(jsonString.value) ELSE Thrown("SyntaxError")

\* parseJSONResponse: the fenced block if one matches, else the whole text;
\* any parse failure is rethrown as Error('Invalid JSON response from AI')
parseJSONResponse(response) ==
    LET jsonMatch == response.fence \in {"json", "plain"}
        jsonString == IF jsonMatch THEN Inner(response) ELSE Whole(response)
        parsed == JSONparse(jsonString)
    IN  IF parsed.kind = "throw"
        THEN Thrown("Invalid JSON response from AI")
        ELSE parsed

\* the generator's behaviour on one call, as the caller can observe it: a
\* provider fault, a text with no parseable payload, or a text carrying one
GenClass(gen) ==
    IF gen.kind = "fault" THEN "fault"
    ELSE IF gen.text.body = NotJson THEN "invalid"
    ELSE "valid"

\* what the provider can do on one call whose payloads range over `values`
GeneratorOutcomes(values) ==
    {[kind |-> "fault"]} \cup {[kind |-> "text", text |-> t] : t \in Texts(values)}

\* ------------------------------------------------------------------------
\* Agents
\* ------------------------------------------------------------------------

\* data.f of JavaScript on a non-null value: a primitive has no such field
Field(data, f) == IF data.kind = "object" THEN data[f] ELSE Undefined

\* a catch block that drops the error message
FailedOutputNoErrors(msg) ==
    [success |-> FALSE, confidence |-> Num(0), data |-> Null,
     errors |-> Arr(<<>>)]

\* the AgentOutput of an agent's catch block
FailedOutput(msg) ==
    [success |-> FALSE, confidence |-> Num(0), data |-> Null,
     errors |-> Arr(<<msg>>)]

SuccessOutput(conf, d) ==
    [success |-> TRUE, confidence |-> conf, data |-> d, errors |-> Undefined]

\* the part of an agent body all three agents share: call the generator,
\* parse the text, read data.confidence (a TypeError on null)
Completion(gen) ==
    LET response == generateCompletion(gen)
    IN  IF response.kind = "throw" THEN response
        ELSE LET data == parseJSONResponse(response.value)
             IN  IF data.kind = "throw" THEN data
                 ELSE IF data.value = Null THEN Thrown("TypeError")
                 ELSE data

PlanningAgentExecute(gen) ==
    LET data == Completion(gen)
    IN  IF data.kind = "throw" THEN FailedOutput(data.message)
        ELSE SuccessOutput(Field(data.value, "confidence"),
                           [kind |-> "architecture",
                            pages |-> Field(data.value, "pages")])

\* the logger.warn of the Planning agent: data.confidence < 0.75
PlanningLowConfidence(gen) ==
    LET data == Completion(gen)
    IN  /\ data.kind = "return"
        /\ IsNum(Field(data.value, "confidence"))
        /\ Field(data.value, "confidence").val < ConfidenceThreshold

DesignAgentExecute(gen) ==
    LET data == Completion(gen)
    IN  IF data.kind = "throw" THEN FailedOutput(data.message)
        ELSE SuccessOutput(Field(data.value, "confidence"),
                           [kind |-> "design"])

\* pages.map(...) runs before the generator is called and throws a TypeError
\* when pages is not an array
ContentCallsGenerator(pages) == pages.kind = "array"

ContentAgentExecute(gen, pages) ==
    IF ~ContentCallsGenerator(pages) THEN FailedOutput("TypeError")
    ELSE LET data == Completion(gen)
         IN  IF data.kind = "throw" THEN FailedOutput(data.message)
             ELSE SuccessOutput(Field(data.value, "confidence"),
                                [kind |-> "content",
                                 pages |-> Field(data.value, "pages")])

\* payloads per agent: the Design agent reads no pages field
PlanningOutcomes == GeneratorOutcomes(JsonValues)
DesignOutcomes == GeneratorOutcomes({v \in JsonValues : v.kind = "object" => v.pages = Undefined})
ContentOutcomes == GeneratorOutcomes(JsonValues)

\* ------------------------------------------------------------------------
\* State of the other components
\* ------------------------------------------------------------------------

\* WordPressService.deploySite: one run
VARIABLES
    dPc,                \* position of the run in deploySite
    plan,               \* deploymentData: the theme and the plugins to install
    dSink,              \* the listeners registered for 'progress'
    events,             \* the progress events emitted so far
    commands,           \* the remote commands issued so far, with their results
    persisted,          \* the statuses written to the site record, in order
    pluginIndex,        \* position of the plugin loop
    caught,             \* the error the catch block of deploySite holds
    dListenerThrew,     \* a 'progress' listener threw during the run
    dOutcome            \* the promise of deploySite

deployVars == <<dPc, plan, dSink, events, commands, persisted, pluginIndex,
                caught, dListenerThrew, dOutcome>>

\* SSHClient.executeCommand: one call
VARIABLES
    sPc,                \* position of the call in executeCommand
    sCommand,           \* the command passed to the call
    sRemote,            \* what the remote end does on this call
    sSession,           \* connection state of this.conn
    output,             \* stdout accumulated from the stream
    errorOutput,        \* stderr accumulated from the stream
    sOutcome            \* the promise of executeCommand

sshVars == <<sPc, sCommand, sRemote, sSession, output, errorOutput, sOutcome>>

\* WordPressAPIClient: one request through the response interceptor
VARIABLES
    aPc,                \* position of the request
    aMethod,            \* the client method that made the request
    aReply,             \* what axios hands to the interceptor
    aOutcome            \* how the client method settled

apiVars == <<aPc, aMethod, aReply, aOutcome>>

\* AIService.parseJSONResponse on a concrete text
VARIABLES
    tPc,                \* position of the parse / re-serialise / re-parse
    tText,              \* the generator text
    tParsed,            \* parseJSONResponse(text)
    tReparsed           \* parseJSONResponse(JSON.stringify(parsed))

textVars == <<tPc, tText, tParsed, tReparsed>>

\* an agent's execute on an AIService built from a provider configuration
VARIABLES
    mPc,                \* position of the call in execute
    mConfig,            \* the AIProviderConfig the AIService was built from
    mAgent,             \* the agent that runs
    mInput,             \* the AgentInput
    mPrompt,            \* the prompt handed to generateCompletion
    mResponse,          \* what generateCompletion did
    mResult             \* the AgentOutput returned

mockVars == <<mPc, mConfig, mAgent, mInput, mPrompt, mResponse, mResult>>

\* one request to the site routes
VARIABLES
    qPc,                \* position of the request in the router
    qReq,               \* the request: route, Authorization header, :id
    qUser,              \* req.user
    qNext,              \* the calls of next made by authenticate
    qHandler,           \* the route handlers that ran for the request
    qSites,             \* the site table
    qEngine,            \* the call to the AI engine: none, pending, ok, failed
    qOutcome,           \* how the SiteService method called settled
    qRes                \* the response sent

siteVars ==
    <<qPc, qReq, qUser, qNext, qHandler, qSites, qEngine, qOutcome, qRes>>

None == [kind |-> "none"]

DeployIdle ==
    /\ dPc = "idle"
    /\ plan = None
    /\ dSink = "none"
    /\ events = <<>>
    /\ commands = <<>>
    /\ persisted = <<>>
    /\ pluginIndex = 0
    /\ caught = None
    /\ dListenerThrew = FALSE
    /\ dOutcome = None

SshIdle ==
    /\ sPc = "idle"
    /\ sCommand = <<>>
    /\ sRemote = None
    /\ sSession = "closed"
    /\ output = <<>>
    /\ errorOutput = <<>>
    /\ sOutcome = None

ApiIdle ==
    /\ aPc = "idle"
    /\ aMethod = ""
    /\ aReply = None
    /\ aOutcome = None

TextIdle ==
    /\ tPc = "idle"
    /\ tText = <<>>
    /\ tParsed = None
    /\ tReparsed = None

MockIdle ==
    /\ mPc = "idle"
    /\ mConfig = None
    /\ mAgent = ""
    /\ mInput = None
    /\ mPrompt = <<>>
    /\ mResponse = None
    /\ mResult = None

SiteIdle ==
    /\ qPc = "idle"
    /\ qReq = None
    /\ qUser = None
    /\ qNext = <<>>
    /\ qHandler = <<>>
    /\ qSites = None
    /\ qEngine = "none"
    /\ qOutcome = None
    /\ qRes = None

\* ------------------------------------------------------------------------
\* Orchestrator.orchestrate: one run
\* ------------------------------------------------------------------------

VARIABLES
    pc,                 \* position of the run in orchestrate
    sink,               \* the listeners registered for 'progress'
    emitted,            \* the progress notifications emitted so far
    invoked,            \* the agents whose execute was called, in call order
    inflight,           \* the agents whose execute has not settled yet
    genCalls,           \* number of generateCompletion calls of the run
    warned,             \* the Planning agent logged its low-confidence warning
    generated,          \* per agent, what the generator did on its call
    listenerThrew,      \* a 'progress' listener threw during the run
    planningResult,
    designResult,
    contentResult,
    contentPages,       \* the pages argument passed to contentAgent.execute
    errors,
    confidences,
    overallConfidence,
    outcome,            \* the promise of orchestrate: pending, resolved, rejected
    result              \* the value the promise resolved with

orchestratorVars ==
    <<pc, sink, emitted, invoked, inflight, genCalls, warned,
      generated, listenerThrew,
      planningResult, designResult, contentResult, contentPages, errors,
      confidences, overallConfidence, outcome, result>>

vars ==
    <<orchestratorVars, deployVars, sshVars, apiVars, textVars, mockVars,
      siteVars>>

\* what a step of orchestrate leaves alone
notOrchestrator ==
    <<deployVars, sshVars, apiVars, textVars, mockVars, siteVars>>

Agents == {"planning", "design", "content"}

NotRun == [kind |-> "notrun"]
NoResult == [kind |-> "none"]

\* no listener, listeners that return, or a listener that may throw an Error
Sinks == {"none", "ok", "faulty"}

Init ==
    /\ pc = "start"
    /\ sink \in Sinks
    /\ emitted = <<>>
    /\ invoked = <<>>
    /\ inflight = {}
    /\ genCalls = 0
    /\ warned = FALSE
    /\ generated = [a \in Agents |-> "none"]
    /\ listenerThrew = FALSE
    /\ planningResult = NotRun
    /\ designResult = NotRun
    /\ contentResult = NotRun
    /\ contentPages = NotRun
    /\ errors = <<>>
    /\ confidences = <<>>
    /\ overallConfidence = Num(0)
    /\ outcome = "pending"
    /\ result = NoResult
    /\ DeployIdle
    /\ SshIdle
    /\ ApiIdle
    /\ TextIdle
    /\ MockIdle
    /\ SiteIdle

\* whether EventEmitter.emit can throw: a listener's exception propagates to
\* the caller of emit
ListenerOutcomes == IF sink = "faulty" THEN {"returns", "throws"} ELSE {"returns"}

\* no catch block: the fault rejects the promise of orchestrate
CaughtRethrows(msg) == [outcome |-> "rejected", result |-> NoResult]

\* the catch block of orchestrate
Caught(msg) ==
    [outcome |-> "resolved",
     result |-> [kind |-> "result", success |-> FALSE,
                 siteArchitecture |-> Undefined, content |-> Undefined,
                 design |-> Undefined, overallConfidence |-> Num(0),
                 errors |-> <<msg>>]]

\* the run goes on to Design and Content whatever Planning returned
PlanningFatalNever(r) == FALSE

\* line 40: the test that makes a Planning result abort the run
PlanningFatal(r) == ~r.success

\* the abort reports the mean of the (empty) confidences, 0/0
PlanningAbortedWithMean(errs) ==
    [outcome |-> "resolved",
     result |-> [kind |-> "result", success |-> FALSE,
                 siteArchitecture |-> Undefined, content |-> Undefined,
                 design |-> Undefined, overallConfidence |-> NaN,
                 errors |-> errs]]

\* line 42: the value returned when Planning failed
PlanningAborted(errs) ==
    [outcome |-> "resolved",
     result |-> [kind |-> "result", success |-> FALSE,
                 siteArchitecture |-> Undefined, content |-> Undefined,
                 design |-> Undefined, overallConfidence |-> Num(0),
                 errors |-> errs]]

\* settle the promise of orchestrate with the outcome `o`
Settle(o) ==
    /\ pc' = "done"
    /\ outcome' = o.outcome
    /\ result' = o.result

\* this.emit('progress', {step, progress, ...}) inside the try block, followed
\* by `rest` when every listener returned
Emit(step, progress, rest) ==
    /\ emitted' = Append(emitted, [step |-> step, progress |-> progress])
    /\ \E l \in ListenerOutcomes :
          IF l = "throws"
          THEN /\ listenerThrew' = TRUE
               /\ Settle(Caught("listener error"))
               /\ UNCHANGED <<invoked, inflight, contentPages>>
          ELSE /\ UNCHANGED listenerThrew
               /\ rest

\* errors.push(...(r.errors || [fallback]))
PushErrors(r, fallback) ==
    errors \o (IF r.errors = Undefined THEN <<fallback>> ELSE r.errors.items)

\* confidences.reduce((a, b) => a + b, 0) / confidences.length
RECURSIVE Reduce(_)
Reduce(s) == IF s = <<>> THEN Num(0) ELSE JsAdd(Reduce(SubSeq(s, 1, Len(s) - 1)), s[Len(s)])

Mean(s) == JsDiv(Reduce(s), Len(s))

\* lines 31-38: emit 'planning', call planningAgent.execute
PlanningStart ==
    /\ pc = "start"
    /\ UNCHANGED notOrchestrator
    /\ Emit("planning", 10,
            /\ pc' = "planning"
            /\ invoked' = Append(invoked, "planning")
            /\ inflight' = inflight \cup {"planning"}
            /\ UNCHANGED <<outcome, result>>)
    /\ UNCHANGED <<sink, genCalls, warned, generated, planningResult,
                   designResult, contentResult, contentPages, errors, confidences,
                   overallConfidence>>

\* lines 38-46: the Planning call settles; a failure returns at once
PlanningSettle ==
    /\ pc = "planning"
    /\ UNCHANGED notOrchestrator
    /\ \E gen \in PlanningOutcomes :
          LET r == PlanningAgentExecute(gen)
          IN  /\ planningResult' = r
              /\ warned' = PlanningLowConfidence(gen)
              /\ generated' = [generated EXCEPT !["planning"] = GenClass(gen)]
              /\ IF PlanningFatal(r)
                 THEN /\ errors' = PushErrors(r, "Planning failed")
                      /\ Settle(PlanningAborted(errors'))
                      /\ UNCHANGED confidences
                 ELSE /\ confidences' = Append(confidences, r.confidence)
                      /\ pc' = "design_start"
                      /\ UNCHANGED <<errors, outcome, result>>
    /\ genCalls' = genCalls + 1
    /\ inflight' = inflight \ {"planning"}
    /\ UNCHANGED <<sink, emitted, invoked, listenerThrew, designResult,
                   contentResult, contentPages, overallConfidence>>

\* the 'design' notification carries the progress of a later milestone
DesignStartWrongProgress ==
    /\ pc = "design_start"
    /\ UNCHANGED notOrchestrator
    /\ Emit("design", 60,
            /\ pc' = "design"
            /\ invoked' = Append(invoked, "design")
            /\ inflight' = inflight \cup {"design"}
            /\ UNCHANGED <<outcome, result>>)
    /\ UNCHANGED <<sink, genCalls, warned, generated, planningResult,
                   designResult, contentResult, contentPages, errors, confidences,
                   overallConfidence>>

\* lines 49-50: emit 'design', call designAgent.execute
DesignStart ==
    /\ pc = "design_start"
    /\ UNCHANGED notOrchestrator
    /\ Emit("design", 30,
            /\ pc' = "design"
            /\ invoked' = Append(invoked, "design")
            /\ inflight' = inflight \cup {"design"}
            /\ UNCHANGED <<outcome, result>>)
    /\ UNCHANGED <<sink, genCalls, warned, generated, planningResult,
                   designResult, contentResult, contentPages, errors, confidences,
                   overallConfidence>>

\* lines 50-56: the Design call settles
DesignSettle ==
    /\ pc = "design"
    /\ UNCHANGED notOrchestrator
    /\ \E gen \in DesignOutcomes :
          LET r == DesignAgentExecute(gen)
          IN  /\ designResult' = r
              /\ generated' = [generated EXCEPT !["design"] = GenClass(gen)]
              /\ IF ~r.success
                 THEN /\ errors' = PushErrors(r, "Design selection failed")
                      /\ UNCHANGED confidences
                 ELSE /\ confidences' = Append(confidences, r.confidence)
                      /\ UNCHANGED errors
    /\ pc' = "content_start"
    /\ genCalls' = genCalls + 1
    /\ inflight' = inflight \ {"design"}
    /\ UNCHANGED <<sink, emitted, invoked, warned, listenerThrew,
                   planningResult, contentResult, contentPages,
                   overallConfidence, outcome, result>>

\* the Content call is not awaited: the run goes on to aggregation at once
ContentStartNoAwait ==
    /\ pc = "content_start"
    /\ UNCHANGED notOrchestrator
    /\ Emit("content", 50,
            /\ pc' = "aggregate"
            /\ invoked' = Append(invoked, "content")
            /\ inflight' = inflight \cup {"content"}
            /\ contentPages' = planningResult.data.pages
            /\ UNCHANGED <<outcome, result>>)
    /\ UNCHANGED <<sink, genCalls, warned, generated, planningResult,
                   designResult, contentResult, errors, confidences,
                   overallConfidence>>

\* the Content call is made without the pages argument
ContentStartWithoutPages ==
    /\ pc = "content_start"
    /\ UNCHANGED notOrchestrator
    /\ Emit("content", 50,
            /\ pc' = "content"
            /\ invoked' = Append(invoked, "content")
            /\ inflight' = inflight \cup {"content"}
            /\ contentPages' = Undefined
            /\ UNCHANGED <<outcome, result>>)
    /\ UNCHANGED <<sink, genCalls, warned, generated, planningResult,
                   designResult, contentResult, errors, confidences,
                   overallConfidence>>

\* lines 59-60: emit 'content', call contentAgent.execute with Planning's pages
ContentStart ==
    /\ pc = "content_start"
    /\ UNCHANGED notOrchestrator
    /\ Emit("content", 50,
            /\ pc' = "content"
            /\ invoked' = Append(invoked, "content")
            /\ inflight' = inflight \cup {"content"}
            /\ contentPages' = planningResult.data.pages
            /\ UNCHANGED <<outcome, result>>)
    /\ UNCHANGED <<sink, genCalls, warned, generated, planningResult,
                   designResult, contentResult, errors, confidences,
                   overallConfidence>>

\* lines 60-66: the Content call settles
ContentSettle ==
    /\ pc = "content"
    /\ UNCHANGED notOrchestrator
    /\ \E gen \in ContentOutcomes :
          LET r == ContentAgentExecute(gen, contentPages)
          IN  /\ contentResult' = r
              /\ generated' = [generated EXCEPT !["content"] =
                                  IF ContentCallsGenerator(contentPages)
                                  THEN GenClass(gen) ELSE "none"]
              /\ IF ~r.success
                 THEN /\ errors' = PushErrors(r, "Content generation failed")
                      /\ UNCHANGED confidences
                 ELSE /\ confidences' = Append(confidences, r.confidence)
                      /\ UNCHANGED errors
    /\ pc' = "aggregate"
    /\ genCalls' = IF ContentCallsGenerator(contentPages)
                   THEN genCalls + 1 ELSE genCalls
    /\ inflight' = inflight \ {"content"}
    /\ UNCHANGED <<sink, emitted, invoked, warned, listenerThrew,
                   planningResult, designResult, contentPages,
                   overallConfidence, outcome, result>>

\* 'complete' is emitted only when no agent failed
AggregateOnlyOnSuccess ==
    /\ pc = "aggregate"
    /\ UNCHANGED notOrchestrator
    /\ overallConfidence' = Mean(confidences)
    /\ IF Len(errors) = 0
       THEN Emit("complete", 100,
                /\ pc' = "return"
                /\ UNCHANGED <<invoked, inflight, contentPages, outcome, result>>)
       ELSE /\ pc' = "return"
            /\ UNCHANGED <<emitted, listenerThrew, invoked, inflight,
                           contentPages, outcome, result>>
    /\ UNCHANGED <<sink, genCalls, warned, generated, planningResult,
                   designResult, contentResult, errors, confidences>>

\* lines 68-71: compute the overall confidence, emit 'complete'
Aggregate ==
    /\ pc = "aggregate"
    /\ UNCHANGED notOrchestrator
    /\ overallConfidence' = Mean(confidences)
    /\ Emit("complete", 100,
            /\ pc' = "return"
            /\ UNCHANGED <<invoked, inflight, contentPages, outcome, result>>)
    /\ UNCHANGED <<sink, genCalls, warned, generated, planningResult,
                   designResult, contentResult, errors, confidences>>

\* lines 73-82: return the result
Return ==
    /\ pc = "return"
    /\ UNCHANGED notOrchestrator
    /\ Settle([outcome |-> "resolved",
               result |-> [kind |-> "result",
                           success |-> (Len(errors) = 0),
                           siteArchitecture |-> planningResult.data,
                           content |-> IF contentResult.success
                                       THEN contentResult.data ELSE Null,
                           design |-> IF designResult.success
                                      THEN designResult.data ELSE Null,
                           overallConfidence |-> overallConfidence,
                           errors |-> errors]])
    /\ UNCHANGED <<sink, emitted, invoked, inflight, genCalls, warned,
                   generated, listenerThrew, planningResult, designResult,
                   contentResult, contentPages, errors, confidences,
                   overallConfidence>>

Next ==
    \/ PlanningStart
    \/ PlanningSettle
    \/ DesignStart
    \/ DesignSettle
    \/ ContentStart
    \/ ContentSettle
    \/ Aggregate
    \/ Return

Spec == Init /\ [][Next]_vars

TypeOK ==
    /\ pc \in {"start", "planning", "design_start", "design", "content_start",
               "content", "aggregate", "return", "done"}
    /\ outcome \in {"pending", "resolved", "rejected"}
    /\ genCalls \in 0..3

\* ------------------------------------------------------------------------
\* Properties of orchestrate
\* ------------------------------------------------------------------------

Ran(r) == r # NotRun
Finished == pc = "done"
PlanningFailed == Ran(planningResult) /\ ~planningResult.success
PlanningSucceeded == Ran(planningResult) /\ planningResult.success

\* the agent outputs of the run that report success
Succeeded ==
    {a \in Agents :
        LET r == CASE a = "planning" -> planningResult
                   [] a = "design" -> designResult
                   [] a = "content" -> contentResult
        IN  Ran(r) /\ r.success}

ResultOf(a) ==
    CASE a = "planning" -> planningResult
      [] a = "design" -> designResult
      [] a = "content" -> contentResult

RECURSIVE SumConf(_)
SumConf(as) ==
    IF as = {} THEN 0
    ELSE LET a == CHOOSE x \in as : TRUE
         IN  ResultOf(a).confidence.val + SumConf(as \ {a})

\* the arithmetic mean of the confidences of the agents that succeeded; not a
\* number when one of them reported no numeric confidence
MeanOfSucceeded ==
    IF \E a \in Succeeded : ~IsNum(ResultOf(a).confidence) THEN NaN
    ELSE Num(SumConf(Succeeded) \div Cardinality(Succeeded))

\* C1: when Planning returns success=false the run is over with a result that
\* has success=false and Planning's errors, and Design and Content were never
\* invoked.
C1_PlanningFailureAborts ==
    PlanningFailed =>
        /\ Finished
        /\ outcome = "resolved"
        /\ result.success = FALSE
        /\ result.errors = planningResult.errors.items
        /\ invoked = <<"planning">>
        /\ designResult = NotRun
        /\ contentResult = NotRun

C1_Witness ==
    /\ PlanningFailed
    /\ Finished
    /\ result.errors = <<"Invalid JSON response from AI">>

\* C2: whenever the run got past Planning, the overallConfidence of the result
\* is the mean of the confidences of exactly the agents that succeeded.
C2_OverallConfidenceIsMean ==
    (Finished /\ PlanningSucceeded) =>
        result.overallConfidence = MeanOfSucceeded

\* C2 on the runs in which no progress listener threw
C2_MeanWithoutListenerFault ==
    (Finished /\ PlanningSucceeded /\ ~listenerThrew) =>
        result.overallConfidence = MeanOfSucceeded

\* C3: result.success is true exactly when Planning, Design and Content were
\* all executed and all returned success=true; otherwise errors is non-empty.
C3_SuccessIffAllAgentsSucceeded ==
    Finished =>
        /\ result.success <=> (Succeeded = Agents)
        /\ ~result.success => Len(result.errors) > 0

\* C3 on the runs in which no progress listener threw
C3_SuccessWithoutListenerFault ==
    (Finished /\ ~listenerThrew) =>
        /\ result.success <=> (Succeeded = Agents)
        /\ ~result.success => Len(result.errors) > 0

\* every error message of the agent output r is among the run's result errors
CarriesErrorsOf(r) ==
    \A i \in 1..Len(r.errors.items) :
        \E j \in 1..Len(result.errors) : result.errors[j] = r.errors.items[i]

\* the best-effort result for a run whose Planning succeeded
BestEffort ==
    /\ result.siteArchitecture = planningResult.data
    /\ result.success = FALSE
    /\ Ran(designResult) =>
          IF designResult.success
          THEN result.design = designResult.data
          ELSE result.design = Null /\ CarriesErrorsOf(designResult)
    /\ Ran(contentResult) =>
          IF contentResult.success
          THEN result.content = contentResult.data
          ELSE result.content = Null /\ CarriesErrorsOf(contentResult)

SomePartialFailure ==
    \/ Ran(designResult) /\ ~designResult.success
    \/ Ran(contentResult) /\ ~contentResult.success

\* C4: when Planning succeeds and Design and/or Content fails, the result
\* still carries Planning's payload and the payload of the agent that
\* succeeded, null for the one that failed, success=false and the failing
\* agent's error messages.
C4_BestEffortData ==
    (Finished /\ PlanningSucceeded /\ SomePartialFailure) => BestEffort

\* C4 on the runs in which no progress listener threw
C4_BestEffortWithoutListenerFault ==
    (Finished /\ PlanningSucceeded /\ SomePartialFailure /\ ~listenerThrew)
        => BestEffort

\* C5: orchestrate never rejects; it resolves with a result carrying success,
\* overallConfidence and errors, and a fault thrown inside the run yields
\* success=false with the fault's message in errors.
C5_NeverRejects ==
    /\ outcome # "rejected"
    /\ Finished =>
          /\ outcome = "resolved"
          /\ result.kind = "result"
          /\ result.success \in BOOLEAN
          /\ result.overallConfidence.kind \in {"number", "NaN"}
          /\ result.errors \in Seq(STRING)
    /\ listenerThrew =>
          /\ Finished
          /\ result.success = FALSE
          /\ result.errors = <<"listener error">>

C5_Witness ==
    /\ listenerThrew
    /\ outcome = "resolved"
    /\ PlanningSucceeded
    /\ Ran(designResult)

\* C6: an agent whose generator call faulted or returned text with no
\* parseable payload settles with success=false, confidence 0 and a non-empty
\* errors list, and every failed agent output has that shape.
C6_AgentFailureIsOutput ==
    \A a \in Agents :
        /\ generated[a] \in {"fault", "invalid"} =>
              /\ Ran(ResultOf(a))
              /\ ~ResultOf(a).success
        /\ (Ran(ResultOf(a)) /\ ~ResultOf(a).success) =>
              /\ ResultOf(a).confidence = Num(0)
              /\ ResultOf(a).errors.kind = "array"
              /\ Len(ResultOf(a).errors.items) > 0

C6_Witness ==
    /\ generated["planning"] = "valid"
    /\ generated["design"] = "invalid"
    /\ generated["content"] = "fault"
    /\ \A a \in {"design", "content"} :
          ~ResultOf(a).success /\ ResultOf(a).confidence = Num(0)

Milestones ==
    << [step |-> "planning", progress |-> 10],
       [step |-> "design", progress |-> 30],
       [step |-> "content", progress |-> 50],
       [step |-> "complete", progress |-> 100] >>

\* C7: the progress notifications emitted so far are always a prefix of
\* planning(10), design(30), content(50), complete(100): increasing progress,
\* no milestone twice.
C7_ProgressOrder ==
    /\ Len(emitted) <= Len(Milestones)
    /\ \A i \in 1..Len(emitted) : emitted[i] = Milestones[i]
    /\ \A i, j \in 1..Len(emitted) :
          i < j => emitted[i].progress < emitted[j].progress

C7_Witness ==
    /\ Finished
    /\ emitted = Milestones

\* the run has reached aggregation
Aggregating ==
    \/ pc \in {"aggregate", "return"}
    \/ \E i \in 1..Len(emitted) : emitted[i].step = "complete"
    \/ Finished /\ result.siteArchitecture # Undefined

\* C8: aggregation (the overall confidence, the 100% notification, the
\* returned result) happens only once both the Design call and the Content
\* call have settled.
C8_JoinBeforeAggregate ==
    Aggregating =>
        /\ Ran(designResult)
        /\ Ran(contentResult)
        /\ inflight = {}

C8_Witness ==
    /\ pc = "aggregate"
    /\ ~designResult.success
    /\ contentResult.success

Distinct(s) == \A i, j \in 1..Len(s) : i # j => s[i] # s[j]

\* C9: a Planning result with success=true has a non-empty pages list with
\* pairwise distinct slugs.
C9_SuccessfulPlanHasUniquePages ==
    PlanningSucceeded =>
        /\ planningResult.data.pages.kind = "array"
        /\ Len(planningResult.data.pages.items) > 0
        /\ Distinct(planningResult.data.pages.items)

\* C10 as claimed: a run aborted at Planning reports no overallConfidence.
C10_AbortOmitsConfidence ==
    (Finished /\ PlanningFailed) => result.overallConfidence = Undefined

\* C10: a run aborted at Planning reports overallConfidence as the number 0.
C10_AbortReportsZero ==
    (Finished /\ PlanningFailed) => result.overallConfidence = Num(0)

C10_Witness ==
    /\ Finished
    /\ PlanningFailed
    /\ generated["planning"] = "fault"
    /\ result.overallConfidence = Num(0)

\* ------------------------------------------------------------------------
\* The orchestrator at rest, for the runs of the other components
\* ------------------------------------------------------------------------

OrchestratorIdle ==
    /\ pc = "start"
    /\ sink = "none"
    /\ emitted = <<>>
    /\ invoked = <<>>
    /\ inflight = {}
    /\ genCalls = 0
    /\ warned = FALSE
    /\ generated = [a \in Agents |-> "none"]
    /\ listenerThrew = FALSE
    /\ planningResult = NotRun
    /\ designResult = NotRun
    /\ contentResult = NotRun
    /\ contentPages = NotRun
    /\ errors = <<>>
    /\ confidences = <<>>
    /\ overallConfidence = Num(0)
    /\ outcome = "pending"
    /\ result = NoResult

\* ------------------------------------------------------------------------
\* SSHClient: errors, commands and the result of executeCommand
\* ------------------------------------------------------------------------

\* longest stdout / stderr the remote end writes
MaxOutput == 2

\* characters of the remote output: whitespace and a letter
Chars == {" ", "a"}

Outputs == UNION {[1..n -> Chars] : n \in 0..MaxOutput}

\* exit codes of the remote command
ExitCodes == {0, 1, 2}

\* the code the 'close' handler can be called with: an exit code, or none
\* (-2 stands for undefined) when the channel is closed because its
\* connection was lost
CloseCodes == ExitCodes \cup {-2}

\* new SSHError(message, command)
SSHError(message, command) ==
    [name |-> "SSHError", message |-> message, command |-> command]

\* an Error thrown by a 'progress' listener
ListenerError ==
    [name |-> "Error", message |-> <<"listener error">>, command |-> <<>>]

Resolved(v) == [kind |-> "resolved", value |-> v]
Rejected(e) == [kind |-> "rejected", error |-> e]

\* the whitespace characters of the model's strings
Whitespace == {" ", "newline"}

\* String.prototype.trim
RECURSIVE TrimLeft(_)
TrimLeft(str) ==
    IF str # <<>> /\ Head(str) \in Whitespace THEN TrimLeft(Tail(str)) ELSE str

RECURSIVE TrimRight(_)
TrimRight(str) ==
    IF str # <<>> /\ str[Len(str)] \in Whitespace
    THEN TrimRight(SubSeq(str, 1, Len(str) - 1))
    ELSE str

Trim(str) == TrimRight(TrimLeft(str))

\* the WP-CLI wrappers: the command each passes to executeCommand
wpCoreInstall == <<"wp core install">>
wpThemeInstall(theme) == <<"wp theme install", theme, "--activate">>
wpPluginInstall(plugin) == <<"wp plugin install", plugin, "--activate">>

\* what the remote end does on one call: the connection attempt, the exec
\* request, and the command's streams and exit code
Remotes(outs, errs) ==
    [connect : {"ready", "error"}, exec : {"stream", "error"},
     code : ExitCodes, stdout : outs, stderr : errs]

\* the message of the SSHError for a non-zero exit:
\* `Command failed with code ${code}: ${errorOutput}`
CommandFailed(code, stderr) == <<"Command failed with code", code, stderr>>

\* how executeCommand settles against the remote behaviour `remote`
executeCommand(command, remote) ==
    IF remote.connect = "error"
    THEN Rejected(SSHError(<<"connect error">>, command))
    ELSE IF remote.exec = "error"
    THEN Rejected(SSHError(<<"exec error">>, command))
    ELSE IF remote.code # 0
    THEN Rejected(SSHError(CommandFailed(remote.code, remote.stderr), command))
    ELSE Resolved(Trim(remote.stdout))

\* ------------------------------------------------------------------------
\* WordPressService.deploySite: one run
\* ------------------------------------------------------------------------

\* most plugins a deployment plan names
MaxPlugins == 2

PluginSlugs == {"seo", "forms"}

\* deploymentData: theme ("" when none is given) and the plugin slugs.
\* `required` is the PluginConfig.required flag of each selected plugin; it is
\* part of the plan, and deploySite is handed the slugs only.
Plans ==
    UNION {[theme : {"", "astra"}, plugins : [1..n -> PluginSlugs],
            required : [1..n -> BOOLEAN]] : n \in 0..MaxPlugins}

\* what the remote end can do on one command of a deployment
DeployRemotes == Remotes({<<>>}, {<<>>, <<"a">>})

InitDeploy ==
    /\ OrchestratorIdle
    /\ SshIdle
    /\ ApiIdle
    /\ TextIdle
    /\ MockIdle
    /\ SiteIdle
    /\ dPc = "start"
    /\ plan \in Plans
    /\ dSink \in Sinks
    /\ events = <<>>
    /\ commands = <<>>
    /\ persisted = <<>>
    /\ pluginIndex = 0
    /\ caught = None
    /\ dListenerThrew = FALSE
    /\ dOutcome = [kind |-> "pending"]

\* what a step of deploySite leaves alone
notDeploy ==
    <<orchestratorVars, sshVars, apiVars, textVars, mockVars, siteVars>>

DeployListenerOutcomes ==
    IF dSink = "faulty" THEN {"returns", "throws"} ELSE {"returns"}

Event(step, message) == [step |-> step, message |-> message]

\* control passes to the catch block of deploySite with `err`
ToCatch(err) ==
    /\ dPc' = "catch"
    /\ caught' = err

\* await this.sshClient.<wrapper>(...): the command goes out
Issue(step, command) ==
    commands' = Append(commands,
                       [step |-> step, command |-> command, status |-> "running"])

\* the command in flight settled with `o`
Settled(o) ==
    [commands EXCEPT ![Len(commands)].status =
        IF o.kind = "resolved" THEN "completed" ELSE "failed"]

\* this.emit('progress', {step, message}) inside the try block, followed by
\* `rest` when every listener returned
DeployEmit(step, message, rest) ==
    /\ events' = Append(events, Event(step, message))
    /\ \E l \in DeployListenerOutcomes :
          IF l = "throws"
          THEN /\ dListenerThrew' = TRUE
               /\ ToCatch(ListenerError)
               /\ UNCHANGED <<commands, pluginIndex, dOutcome>>
          ELSE /\ UNCHANGED dListenerThrew
               /\ rest

\* lines 21-22: emit 'init', outside the try block
DeployInit ==
    /\ dPc = "start"
    /\ UNCHANGED notDeploy
    /\ events' = Append(events, Event("init", <<"Initializing deployment...">>))
    /\ \E l \in DeployListenerOutcomes :
          IF l = "throws"
          THEN /\ dListenerThrew' = TRUE
               /\ dPc' = "done"
               /\ dOutcome' = Rejected(ListenerError)
          ELSE /\ dPc' = "core_start"
               /\ UNCHANGED <<dListenerThrew, dOutcome>>
    /\ UNCHANGED <<plan, dSink, commands, persisted, pluginIndex, caught>>

\* lines 26-27: emit 'core_install', call wpCoreInstall
CoreStart ==
    /\ dPc = "core_start"
    /\ UNCHANGED notDeploy
    /\ DeployEmit("core_install", <<"Installing WordPress Core...">>,
            /\ Issue("core_install", wpCoreInstall)
            /\ dPc' = "core"
            /\ UNCHANGED <<pluginIndex, caught, dOutcome>>)
    /\ UNCHANGED <<plan, dSink, persisted>>

\* a core install whose failure is ignored
CoreSettleSwallows ==
    /\ dPc = "core"
    /\ UNCHANGED notDeploy
    /\ \E remote \in DeployRemotes :
          LET o == executeCommand(wpCoreInstall, remote)
          IN  /\ commands' = Settled(o)
              /\ dPc' = "theme_start"
              /\ UNCHANGED caught
    /\ UNCHANGED <<plan, dSink, events, persisted, pluginIndex,
                   dListenerThrew, dOutcome>>

\* lines 27-33: the core install settles
CoreSettle ==
    /\ dPc = "core"
    /\ UNCHANGED notDeploy
    /\ \E remote \in DeployRemotes :
          LET o == executeCommand(wpCoreInstall, remote)
          IN  /\ commands' = Settled(o)
              /\ IF o.kind = "rejected"
                 THEN ToCatch(o.error)
                 ELSE dPc' = "theme_start" /\ UNCHANGED caught
    /\ UNCHANGED <<plan, dSink, events, persisted, pluginIndex,
                   dListenerThrew, dOutcome>>

\* lines 36-38: when a theme is given, emit 'theme_install', call wpThemeInstall
ThemeStart ==
    /\ dPc = "theme_start"
    /\ UNCHANGED notDeploy
    /\ IF plan.theme = ""
       THEN /\ dPc' = "plugins_start"
            /\ UNCHANGED <<events, commands, caught, dListenerThrew>>
       ELSE DeployEmit("theme_install", <<"Installing theme", plan.theme>>,
                 /\ Issue("theme_install", wpThemeInstall(plan.theme))
                 /\ dPc' = "theme"
                 /\ UNCHANGED caught)
    /\ UNCHANGED <<plan, dSink, persisted, pluginIndex, dOutcome>>

\* line 38: the theme install settles
ThemeSettle ==
    /\ dPc = "theme"
    /\ UNCHANGED notDeploy
    /\ \E remote \in DeployRemotes :
          LET o == executeCommand(wpThemeInstall(plan.theme), remote)
          IN  /\ commands' = Settled(o)
              /\ IF o.kind = "rejected"
                 THEN ToCatch(o.error)
                 ELSE dPc' = "plugins_start" /\ UNCHANGED caught
    /\ UNCHANGED <<plan, dSink, events, persisted, pluginIndex,
                   dListenerThrew, dOutcome>>

\* the plugin installs are all started at once
PluginsStartAll ==
    /\ dPc = "plugins_start"
    /\ UNCHANGED notDeploy
    /\ IF Len(plan.plugins) = 0
       THEN /\ dPc' = "persist"
            /\ UNCHANGED <<events, commands, pluginIndex, caught, dListenerThrew>>
       ELSE DeployEmit("plugins_install", <<"Installing plugins...">>,
                 /\ commands' = commands \o
                       [i \in 1..Len(plan.plugins) |->
                           [step |-> "plugins_install",
                            command |-> wpPluginInstall(plan.plugins[i]),
                            status |-> "running"]]
                 /\ pluginIndex' = Len(plan.plugins)
                 /\ dPc' = "plugin"
                 /\ UNCHANGED caught)
    /\ UNCHANGED <<plan, dSink, persisted, dOutcome>>

\* lines 42-45: when plugins are given, emit 'plugins_install' and call
\* wpPluginInstall for the first of them
PluginsStart ==
    /\ dPc = "plugins_start"
    /\ UNCHANGED notDeploy
    /\ IF Len(plan.plugins) = 0
       THEN /\ dPc' = "persist"
            /\ UNCHANGED <<events, commands, pluginIndex, caught, dListenerThrew>>
       ELSE DeployEmit("plugins_install", <<"Installing plugins...">>,
                 /\ Issue("plugins_install", wpPluginInstall(plan.plugins[1]))
                 /\ pluginIndex' = 1
                 /\ dPc' = "plugin"
                 /\ UNCHANGED caught)
    /\ UNCHANGED <<plan, dSink, persisted, dOutcome>>

\* a loop that reports 'plugins_install' for every plugin
PluginSettleReportsEach ==
    /\ dPc = "plugin"
    /\ UNCHANGED notDeploy
    /\ \E remote \in DeployRemotes :
          LET o == executeCommand(wpPluginInstall(plan.plugins[pluginIndex]), remote)
          IN  IF o.kind = "rejected"
              THEN /\ commands' = Settled(o)
                   /\ ToCatch(o.error)
                   /\ UNCHANGED <<pluginIndex, events>>
              ELSE IF pluginIndex < Len(plan.plugins)
              THEN /\ commands' =
                         Append(Settled(o),
                                [step |-> "plugins_install",
                                 command |-> wpPluginInstall(plan.plugins[pluginIndex + 1]),
                                 status |-> "running"])
                   /\ events' = Append(events, Event("plugins_install",
                                                     <<"Installing plugins...">>))
                   /\ pluginIndex' = pluginIndex + 1
                   /\ UNCHANGED <<dPc, caught>>
              ELSE /\ commands' = Settled(o)
                   /\ dPc' = "persist"
                   /\ UNCHANGED <<pluginIndex, caught, events>>
    /\ UNCHANGED <<plan, dSink, persisted, dListenerThrew, dOutcome>>

\* lines 44-46: a plugin install settles; the loop calls wpPluginInstall for
\* the next plugin, or ends
PluginSettle ==
    /\ dPc = "plugin"
    /\ UNCHANGED notDeploy
    /\ \E remote \in DeployRemotes :
          LET o == executeCommand(wpPluginInstall(plan.plugins[pluginIndex]), remote)
          IN  IF o.kind = "rejected"
              THEN /\ commands' = Settled(o)
                   /\ ToCatch(o.error)
                   /\ UNCHANGED pluginIndex
              ELSE IF pluginIndex < Len(plan.plugins)
              THEN /\ commands' =
                         Append(Settled(o),
                                [step |-> "plugins_install",
                                 command |-> wpPluginInstall(plan.plugins[pluginIndex + 1]),
                                 status |-> "running"])
                   /\ pluginIndex' = pluginIndex + 1
                   /\ UNCHANGED <<dPc, caught>>
              ELSE /\ commands' = Settled(o)
                   /\ dPc' = "persist"
                   /\ UNCHANGED <<pluginIndex, caught>>
    /\ UNCHANGED <<plan, dSink, events, persisted, dListenerThrew, dOutcome>>

\* lines 57-60: write status DEPLOYED to the site record
PersistDeployed ==
    /\ dPc = "persist"
    /\ UNCHANGED notDeploy
    /\ persisted' = Append(persisted, "DEPLOYED")
    /\ dPc' = "completed"
    /\ UNCHANGED <<plan, dSink, events, commands, pluginIndex, caught,
                   dListenerThrew, dOutcome>>

\* lines 62-63: emit 'completed'; the run resolves
EmitCompleted ==
    /\ dPc = "completed"
    /\ UNCHANGED notDeploy
    /\ DeployEmit("completed", <<"Deployment successful!">>,
            /\ dPc' = "done"
            /\ dOutcome' = Resolved(None)
            /\ UNCHANGED <<commands, pluginIndex, caught>>)
    /\ UNCHANGED <<plan, dSink, persisted>>

\* lines 66-67: the catch block emits 'failed' with the error's message
DeployCatch ==
    /\ dPc = "catch"
    /\ UNCHANGED notDeploy
    /\ events' = Append(events, Event("failed", caught.message))
    /\ \E l \in DeployListenerOutcomes :
          IF l = "throws"
          THEN /\ dListenerThrew' = TRUE
               /\ dPc' = "done"
               /\ dOutcome' = Rejected(ListenerError)
          ELSE /\ dPc' = "persist_failed"
               /\ UNCHANGED <<dListenerThrew, dOutcome>>
    /\ UNCHANGED <<plan, dSink, commands, persisted, pluginIndex, caught>>

\* lines 69-74: write status FAILED to the site record, rethrow the error
PersistFailed ==
    /\ dPc = "persist_failed"
    /\ UNCHANGED notDeploy
    /\ persisted' = Append(persisted, "FAILED")
    /\ dPc' = "done"
    /\ dOutcome' = Rejected(caught)
    /\ UNCHANGED <<plan, dSink, events, commands, pluginIndex, caught,
                   dListenerThrew>>

NextDeploy ==
    \/ DeployInit
    \/ CoreStart
    \/ CoreSettle
    \/ ThemeStart
    \/ ThemeSettle
    \/ PluginsStart
    \/ PluginSettle
    \/ PersistDeployed
    \/ EmitCompleted
    \/ DeployCatch
    \/ PersistFailed

SpecDeploy == InitDeploy /\ [][NextDeploy]_vars

\* ------------------------------------------------------------------------
\* Properties of a deploySite run
\* ------------------------------------------------------------------------

DeployDone == dPc = "done"

Steps(status) == {i \in 1..Len(commands) : commands[i].status = status}

SomeStepFailed == Steps("failed") # {}

Persisted(status) == \E i \in 1..Len(persisted) : persisted[i] = status

Emitted(step) == \E i \in 1..Len(events) : events[i].step = step

\* the commands of a run in which every step is entered
PlannedCommands ==
    <<wpCoreInstall>>
    \o (IF plan.theme = "" THEN <<>> ELSE <<wpThemeInstall(plan.theme)>>)
    \o [i \in 1..Len(plan.plugins) |-> wpPluginInstall(plan.plugins[i])]

AllStepsCompleted ==
    /\ Len(commands) = Len(PlannedCommands)
    /\ \A i \in 1..Len(commands) :
          /\ commands[i].command = PlannedCommands[i]
          /\ commands[i].status = "completed"

\* nothing is issued after a failed command: it is the last one of the run
HaltedAtFailure == \A i \in Steps("failed") : i = Len(commands)

FailedEventCarries(err) ==
    \E i \in 1..Len(events) :
        /\ events[i].step = "failed"
        /\ events[i].message = err.message

\* C11: when a step of deploySite has failed and the run is over, a 'failed'
\* progress event carrying the failure message was emitted, status FAILED was
\* persisted, and the failed command is the last remote command of the run
\* (no command of a later step, no rollback command).
C11_FailureHalts ==
    (DeployDone /\ SomeStepFailed) =>
        /\ FailedEventCarries(caught)
        /\ Persisted("FAILED")
        /\ HaltedAtFailure

\* the same on the runs in which no progress listener throws
C11_FailureHaltsWithoutListenerFault ==
    (DeployDone /\ SomeStepFailed /\ ~dListenerThrew) =>
        /\ FailedEventCarries(caught)
        /\ persisted = <<"FAILED">>
        /\ HaltedAtFailure
        /\ dOutcome = Rejected(caught)

\* a failed step is never followed by another command, listener fault or not
C11_NoCommandAfterFailure == HaltedAtFailure

\* a run whose step failed and whose FAILED status was never written
C11_FailedNotPersisted ==
    /\ DeployDone
    /\ SomeStepFailed
    /\ ~Persisted("FAILED")

C12_WitnessFailed ==
    /\ DeployDone
    /\ SomeStepFailed
    /\ Len(commands) > 1
    /\ ~Persisted("DEPLOYED")

\* the install of a required plugin exited non-zero
RequiredPluginFailed ==
    /\ dPc \in {"catch", "persist_failed", "done"}
    /\ pluginIndex > 0
    /\ plan.required[pluginIndex]
    /\ commands[Len(commands)].status = "failed"
    /\ caught.message[1] = "Command failed with code"

\* the plugin-install step was the last one attempted, at plugin pluginIndex
StoppedAtPlugin ==
    /\ Len(commands) = Len(PlannedCommands) - (Len(plan.plugins) - pluginIndex)
    /\ commands[Len(commands)].command = wpPluginInstall(plan.plugins[pluginIndex])
    /\ HaltedAtFailure
    /\ ~Emitted("completed")

\* C13: when the install of a required plugin exited non-zero and the run is
\* over, the terminal status is FAILED, the failure of that install is
\* reported, the plugins after it were never installed and no later step was
\* attempted.
C13_RequiredPluginFailureAborts ==
    (DeployDone /\ RequiredPluginFailed) =>
        /\ persisted = <<"FAILED">>
        /\ FailedEventCarries(caught)
        /\ StoppedAtPlugin

\* the same on the runs in which no progress listener throws
C13_AbortsWithoutListenerFault ==
    (DeployDone /\ RequiredPluginFailed /\ ~dListenerThrew) =>
        /\ persisted = <<"FAILED">>
        /\ FailedEventCarries(caught)
        /\ StoppedAtPlugin

\* the later plugins are never installed, listener fault or not
C13_LaterPluginsNeverInstalled ==
    RequiredPluginFailed => StoppedAtPlugin

\* exactly one install failed, that of an optional plugin
OnlyOptionalPluginFailed ==
    /\ pluginIndex > 0
    /\ ~plan.required[pluginIndex]
    /\ Steps("failed") = {Len(commands)}
    /\ ~dListenerThrew

\* C14: when the only failure of a finished run is the install of an
\* optional plugin, the remaining plugins were still installed and the
\* terminal status is DEPLOYED.
C14_OptionalPluginFailureIsNonFatal ==
    (DeployDone /\ OnlyOptionalPluginFailed) =>
        /\ Len(commands) = Len(PlannedCommands)
        /\ persisted = <<"DEPLOYED">>

\* what the engine does instead: the first failed install ends the run with
\* FAILED, whatever the plugin's required flag
C14_AnyPluginFailureAborts ==
    (DeployDone /\ pluginIndex > 0 /\ SomeStepFailed /\ ~dListenerThrew) =>
        /\ persisted = <<"FAILED">>
        /\ StoppedAtPlugin

StepStarts == {"core_install", "theme_install", "plugins_install"}

\* C15: across a deploySite run no step is reported twice, no step is
\* reported started after the run was reported completed or failed, and a
\* command is issued only when every earlier one completed, so that a step's
\* statuses are a subsequence of pending, running, completed|failed.
C15_StepStatusesMonotonic ==
    /\ \A i, j \in 1..Len(events) :
          i < j => /\ events[i].step # events[j].step
                   /\ events[i].step \in {"completed", "failed"}
                          => events[j].step \notin StepStarts
    /\ \A i \in 1..Len(commands) :
          i < Len(commands) => commands[i].status = "completed"
    /\ \A i \in 1..Len(commands) :
          Emitted(commands[i].step)

C15_Witness ==
    /\ DeployDone
    /\ Emitted("core_install")
    /\ Emitted("theme_install")
    /\ Emitted("plugins_install")
    /\ Emitted("failed")
    /\ Len(commands) = 2 + MaxPlugins

\* ------------------------------------------------------------------------
\* SSHClient.executeCommand: one call, callback by callback
\* ------------------------------------------------------------------------

SshCommands == {wpCoreInstall, wpPluginInstall("seo")}

\* sRemote records what the remote end did: the outcome of connect, of exec,
\* the exit code of the stream's 'close' and the data it sent on each channel
RemotePending ==
    [connect |-> "pending", exec |-> "pending", code |-> -1,
     stdout |-> <<>>, stderr |-> <<>>]

InitSSH ==
    /\ OrchestratorIdle
    /\ DeployIdle
    /\ ApiIdle
    /\ TextIdle
    /\ MockIdle
    /\ SiteIdle
    /\ sPc = "start"
    /\ sCommand \in SshCommands
    /\ sRemote = RemotePending
    /\ sSession = "closed"
    /\ output = <<>>
    /\ errorOutput = <<>>
    /\ sOutcome = [kind |-> "pending"]

notSsh ==
    <<orchestratorVars, deployVars, apiVars, textVars, mockVars, siteVars>>

\* lines 111-112, 91-103: executeCommand calls connect()
Connect ==
    /\ sPc = "start"
    /\ UNCHANGED notSsh
    /\ sSession' = "connecting"
    /\ sPc' = "connecting"
    /\ UNCHANGED <<sCommand, sRemote, output, errorOutput, sOutcome>>

\* line 94, 114-119: 'ready' resolves connect(); exec is called
ConnectReady ==
    /\ sPc = "connecting"
    /\ UNCHANGED notSsh
    /\ sRemote' = [sRemote EXCEPT !.connect = "ready"]
    /\ sSession' = "open"
    /\ sPc' = "exec"
    /\ UNCHANGED <<sCommand, output, errorOutput, sOutcome>>

\* lines 95, 145-148: 'error' rejects connect(); the catch block disconnects
\* and throws an SSHError
ConnectError ==
    /\ sPc = "connecting"
    /\ UNCHANGED notSsh
    /\ sRemote' = [sRemote EXCEPT !.connect = "error"]
    /\ sSession' = "closed"
    /\ sOutcome' = Rejected(SSHError(<<"connect error">>, sCommand))
    /\ sPc' = "done"
    /\ UNCHANGED <<sCommand, output, errorOutput>>

\* line 95: the connection emits 'error' after it became ready. The listener
\* is the reject of connect()'s promise, which has resolved: the call has no
\* effect, nothing else listens, and the connection is gone
ConnectionError ==
    /\ sPc \in {"exec", "streaming"}
    /\ sSession = "open"
    /\ UNCHANGED notSsh
    /\ sSession' = "lost"
    /\ UNCHANGED <<sPc, sCommand, sRemote, output, errorOutput, sOutcome>>

\* the exec callback rejects without disconnecting
ExecErrorKeepsSession ==
    /\ sPc = "exec"
    /\ UNCHANGED notSsh
    /\ sRemote' = [sRemote EXCEPT !.exec = "error"]
    /\ sOutcome' = Rejected(SSHError(<<"exec error">>, sCommand))
    /\ sPc' = "done"
    /\ UNCHANGED <<sCommand, sSession, output, errorOutput>>

\* lines 119-123: the exec callback is called with an error
ExecError ==
    /\ sPc = "exec"
    /\ UNCHANGED notSsh
    /\ sRemote' = [sRemote EXCEPT !.exec = "error"]
    /\ sSession' = "closed"
    /\ sOutcome' = Rejected(SSHError(<<"exec error">>, sCommand))
    /\ sPc' = "done"
    /\ UNCHANGED <<sCommand, output, errorOutput>>

\* lines 119, 125-142: the exec callback is called with a stream
ExecStream ==
    /\ sPc = "exec"
    /\ sSession = "open"
    /\ UNCHANGED notSsh
    /\ sRemote' = [sRemote EXCEPT !.exec = "stream"]
    /\ output' = <<>>
    /\ errorOutput' = <<>>
    /\ sPc' = "streaming"
    /\ UNCHANGED <<sCommand, sSession, sOutcome>>

\* lines 137-139: 'data' on the stream
StdoutData ==
    /\ sPc = "streaming"
    /\ UNCHANGED notSsh
    /\ Len(sRemote.stdout) < MaxOutput
    /\ \E c \in Chars :
          /\ sRemote' = [sRemote EXCEPT !.stdout = Append(@, c)]
          /\ output' = Append(output, c)
    /\ UNCHANGED <<sPc, sCommand, sSession, errorOutput, sOutcome>>

\* a handler that adds stderr data to output
StderrDataIntoOutput ==
    /\ sPc = "streaming"
    /\ UNCHANGED notSsh
    /\ Len(sRemote.stderr) < MaxOutput
    /\ \E c \in Chars :
          /\ sRemote' = [sRemote EXCEPT !.stderr = Append(@, c)]
          /\ output' = Append(output, c)
    /\ UNCHANGED <<sPc, sCommand, sSession, errorOutput, sOutcome>>

\* lines 140-142: 'data' on the stream's stderr
StderrData ==
    /\ sPc = "streaming"
    /\ UNCHANGED notSsh
    /\ Len(sRemote.stderr) < MaxOutput
    /\ \E c \in Chars :
          /\ sRemote' = [sRemote EXCEPT !.stderr = Append(@, c)]
          /\ errorOutput' = Append(errorOutput, c)
    /\ UNCHANGED <<sPc, sCommand, sSession, output, sOutcome>>

\* a 'close' handler that does nothing when the connection was lost
CloseUnlessLost ==
    /\ sPc = "streaming"
    /\ sSession = "open"
    /\ UNCHANGED notSsh
    /\ \E code \in ExitCodes :
          /\ sRemote' = [sRemote EXCEPT !.code = code]
          /\ sOutcome' =
                IF code # 0
                THEN Rejected(SSHError(CommandFailed(code, errorOutput), sCommand))
                ELSE Resolved(Trim(output))
    /\ sSession' = "closed"
    /\ sPc' = "done"
    /\ UNCHANGED <<sCommand, output, errorOutput>>

\* lines 129-136: 'close' on the stream with the exit code; the channel of a
\* lost connection is closed too, with the code the command exited with
\* before the loss or with none
Close ==
    /\ sPc = "streaming"
    /\ UNCHANGED notSsh
    /\ \E code \in (IF sSession = "lost" THEN CloseCodes ELSE ExitCodes) :
          /\ sRemote' = [sRemote EXCEPT !.code = code]
          /\ sOutcome' =
                IF code # 0
                THEN Rejected(SSHError(CommandFailed(code, errorOutput), sCommand))
                ELSE Resolved(Trim(output))
    /\ sSession' = "closed"
    /\ sPc' = "done"
    /\ UNCHANGED <<sCommand, output, errorOutput>>

NextSSH ==
    \/ Connect
    \/ ConnectReady
    \/ ConnectError
    \/ ConnectionError
    \/ ExecError
    \/ ExecStream
    \/ StdoutData
    \/ StderrData
    \/ Close

SpecSSH == InitSSH /\ [][NextSSH]_vars

\* the remote end answers: a connection attempt ends in 'ready' or 'error',
\* the exec callback is called, a command that was started exits or its
\* channel is closed with its connection
SpecSSHFair == SpecSSH /\ WF_vars(NextSSH)

\* ------------------------------------------------------------------------
\* Properties of an executeCommand call
\* ------------------------------------------------------------------------

SshDone == sPc = "done"

ExitedWith(code) ==
    /\ sRemote.connect = "ready"
    /\ sRemote.exec = "stream"
    /\ sRemote.code = code

AllSpaces(str) == \A i \in 1..Len(str) : str[i] \in {" ", "newline"}

\* v is str without its leading and trailing whitespace
IsTrimOf(v, str) ==
    /\ Len(v) > 0 => ~AllSpaces(<<v[1]>>) /\ ~AllSpaces(<<v[Len(v)]>>)
    /\ \E i \in 0..Len(str) :
          /\ i + Len(v) <= Len(str)
          /\ AllSpaces(SubSeq(str, 1, i))
          /\ SubSeq(str, i + 1, i + Len(v)) = v
          /\ AllSpaces(SubSeq(str, i + Len(v) + 1, Len(str)))

\* C16: a settled executeCommand call resolved exactly when the command
\* exited with code 0, and then with the trimmed stdout; otherwise it
\* rejected with an SSHError carrying the command and, after a non-zero exit,
\* the exit code and the stderr the command wrote (stdout not mixed in).
C16_ResolvesIffExitZero ==
    SshDone =>
        /\ sOutcome.kind \in {"resolved", "rejected"}
        /\ sOutcome.kind = "resolved" <=> ExitedWith(0)
        /\ sOutcome.kind = "resolved" => IsTrimOf(sOutcome.value, sRemote.stdout)
        /\ sOutcome.kind = "rejected" =>
              /\ sOutcome.error.command = sCommand
              /\ \/ sRemote.connect = "error"
                 \/ sRemote.exec = "error"
                 \/ /\ sRemote.code \in CloseCodes \ {0}
                    /\ sOutcome.error.message =
                          CommandFailed(sRemote.code, sRemote.stderr)

\* the callbacks compute what executeCommand, read as a function of the
\* remote end's behaviour, computes
C16_AgreesWithFunction ==
    SshDone => sOutcome = executeCommand(sCommand, sRemote)

C16_Witness ==
    /\ SshDone
    /\ ExitedWith(0)
    /\ sRemote.stdout = <<" ", "a">>
    /\ sRemote.stderr = <<"a">>
    /\ sOutcome = Resolved(<<"a">>)

C16_WitnessRejected ==
    /\ SshDone
    /\ ExitedWith(2)
    /\ sRemote.stdout = <<"a">>
    /\ sOutcome.error.message = CommandFailed(2, <<"a", " ">>)

\* C17: when the connection attempt fails, the error raised is a
\* NetworkError.
C17_UnreachableHostIsNetworkError ==
    (SshDone /\ sRemote.connect = "error") =>
        sOutcome.error.name = "NetworkError"

\* what the code does: every rejection of executeCommand, connection failure
\* or non-zero exit alike, is an SSHError
C17_EveryRejectionIsSSHError ==
    (SshDone /\ sOutcome.kind = "rejected") => sOutcome.error.name = "SSHError"

C17_ConnectionFailed ==
    /\ SshDone
    /\ sRemote.connect = "error"
    /\ sOutcome.error.name = "SSHError"

\* ------------------------------------------------------------------------
\* WordPressAPIClient: one request through the response interceptor
\* ------------------------------------------------------------------------

\* errors.ts: the class of an error object, its name and public fields;
\* statusCode 0 and code "" stand for undefined
WPError(message, statusCode, code) ==
    [class |-> "WPError", name |-> "WPError", message |-> message,
     statusCode |-> statusCode, code |-> code]

WPAuthError ==
    [WPError("WordPress Authentication Failed", 401, "WP_AUTH_FAILED")
        EXCEPT !.class = "WPAuthError"]

WPNetworkError(message) ==
    [WPError(message, 503, "WP_NETWORK_ERROR") EXCEPT !.class = "WPNetworkError"]

\* statuses axios rejects with (validateStatus accepts 2xx only)
FailureStatuses == {304, 400, 401, 403, 404, 500, 503}

\* the body of a failure response: message and code, "" when absent
FailureData == [message : {"", "Invalid parameter(s): title"},
                code : {"", "rest_invalid_param"}]

\* the error axios hands to the interceptor: with a response, or with the
\* request that got none, or with neither (the request was never sent)
AxiosErrors ==
    [response : [status : FailureStatuses, data : FailureData],
     request : {TRUE}, message : {"Request failed"}, class : {"AxiosError"}]
    \cup
    [response : {None}, request : BOOLEAN,
     message : {"timeout of 30000ms exceeded", "Unsupported protocol ftp:"},
     class : {"AxiosError"}]

\* lines 31-45: the rejection handler of the response interceptor
Interceptor(error) ==
    IF error.response # None
    THEN IF error.response.status = 401
         THEN WPAuthError
         ELSE WPError(IF error.response.data.message # ""
                      THEN error.response.data.message
                      ELSE "WordPress API Error",
                      error.response.status,
                      error.response.data.code)
    ELSE IF error.request
    THEN WPNetworkError(error.message)
    ELSE error

ApiMethods == {"validateConnection", "createPost", "updatePost", "deletePost",
               "createPage", "uploadMedia", "updateSettings"}

InitApi ==
    /\ OrchestratorIdle
    /\ DeployIdle
    /\ SshIdle
    /\ TextIdle
    /\ MockIdle
    /\ SiteIdle
    /\ aPc = "start"
    /\ aMethod \in ApiMethods
    /\ aReply = None
    /\ aOutcome = [kind |-> "pending"]

notApi ==
    <<orchestratorVars, deployVars, sshVars, textVars, mockVars, siteVars>>

\* a method issues its request (this.client.get / post / delete)
ApiRequest ==
    /\ aPc = "start"
    /\ UNCHANGED notApi
    /\ aPc' = "sent"
    /\ UNCHANGED <<aMethod, aReply, aOutcome>>

\* line 30: a 2xx response passes the interceptor; the method returns
ApiSuccess ==
    /\ aPc = "sent"
    /\ UNCHANGED notApi
    /\ aReply' = [kind |-> "response", status |-> 200]
    /\ aOutcome' = Resolved(aMethod)
    /\ aPc' = "done"
    /\ UNCHANGED aMethod

\* lines 31-45: the request fails; the interceptor throws
ApiFailure ==
    /\ aPc = "sent"
    /\ UNCHANGED notApi
    /\ \E error \in AxiosErrors :
          /\ aReply' = [kind |-> "error", error |-> error]
          /\ aOutcome' = [kind |-> "thrown", error |-> Interceptor(error)]
    /\ aPc' = "thrown"
    /\ UNCHANGED aMethod

\* lines 49-95: the method's await rethrows; validateConnection catches and
\* returns false
ApiSettle ==
    /\ aPc = "thrown"
    /\ UNCHANGED notApi
    /\ aOutcome' = IF aMethod = "validateConnection"
                   THEN Resolved("false")
                   ELSE Rejected(aOutcome.error)
    /\ aPc' = "done"
    /\ UNCHANGED <<aMethod, aReply>>

NextApi ==
    \/ ApiRequest
    \/ ApiSuccess
    \/ ApiFailure
    \/ ApiSettle

SpecApi == InitApi /\ [][NextApi]_vars

\* ------------------------------------------------------------------------
\* Properties of a WordPressAPIClient request
\* ------------------------------------------------------------------------

\* the request failed and the interceptor has thrown
ApiFailed == aPc = "thrown"

ApiErrorKinds == {"WPAuthError", "WPError", "WPNetworkError"}

\* the classification of the three kinds of failure the interceptor tests for
ClassifiedAs(error, thrown) ==
    /\ (error.response # None /\ error.response.status = 401)
          => thrown.class = "WPAuthError"
    /\ (error.response # None /\ error.response.status # 401)
          => /\ thrown.class = "WPError"
             /\ thrown.statusCode = error.response.status
             /\ error.response.data.message # ""
                   => thrown.message = error.response.data.message
    /\ error.response = None
          => /\ thrown.class = "WPNetworkError"
             /\ thrown.message = error.message

\* C18: every failed request is thrown as one of WPAuthError (401 response),
\* WPError with the status and message of the response (other non-2xx
\* response) and WPNetworkError (no response).
C18_EveryFailureClassified ==
    ApiFailed =>
        /\ aOutcome.error.class \in ApiErrorKinds
        /\ ClassifiedAs(aReply.error, aOutcome.error)

\* what the interceptor does: a failure that carries a response, or the
\* request that got none, is classified; a failure that carries neither is
\* rethrown as it came, as none of the three kinds
C18_ClassifiedWhenAnsweredOrSent ==
    ApiFailed =>
        IF aReply.error.response # None \/ aReply.error.request
        THEN /\ aOutcome.error.class \in ApiErrorKinds
             /\ ClassifiedAs(aReply.error, aOutcome.error)
        ELSE aOutcome.error = aReply.error

C18_Unclassified ==
    /\ aPc = "done"
    /\ aMethod = "createPost"
    /\ aReply.kind = "error"
    /\ aReply.error.response = None
    /\ ~aReply.error.request
    /\ aOutcome = Rejected(aReply.error)

C18_WitnessAuth ==
    /\ ApiFailed
    /\ aReply.error.response # None
    /\ aReply.error.response.status = 401
    /\ aOutcome.error = WPAuthError

\* ------------------------------------------------------------------------
\* AIService.parseJSONResponse on the characters of a generator text
\* ------------------------------------------------------------------------

\* longest generator text, in tokens
MaxText == 6

\* the pieces of a text that the two patterns and JSON.parse tell apart:
\* three backticks, the word json, a line feed, the two characters \n of an
\* escape inside a JSON string, a double quote, and the literals 1, 1e999
\* (beyond the range of a double) and null
Tokens == {"fence", "json", "newline", "escaped-newline", "quote",
           "1", "1e999", "null"}

GeneratorTexts == UNION {[1..n -> Tokens] : n \in 0..MaxText}

Least(S) == CHOOSE x \in S : \A y \in S : x <= y

\* positions from `from` on where \n``` matches
Closings(text, from) ==
    {k \in from..(Len(text) - 1) :
        text[k] = "newline" /\ text[k + 1] = "fence"}

\* positions where /```json\n([\s\S]*?)\n```/ matches
JsonFenceStarts(text) ==
    {i \in 1..(Len(text) - 2) :
        /\ text[i] = "fence"
        /\ text[i + 1] = "json"
        /\ text[i + 2] = "newline"
        /\ Closings(text, i + 3) # {}}

\* positions where /```\n([\s\S]*?)\n```/ matches
PlainFenceStarts(text) ==
    {i \in 1..(Len(text) - 1) :
        /\ text[i] = "fence"
        /\ text[i + 1] = "newline"
        /\ Closings(text, i + 2) # {}}

\* group 1 of the leftmost match, the lazy quantifier taking the nearest \n```
Captured(text, from) == SubSeq(text, from, Least(Closings(text, from)) - 1)

NoMatch == [kind |-> "null"]
Match(group) == [kind |-> "match", group |-> group]

\* lines 83-84: response.match(...) || response.match(...)
jsonMatch(text) ==
    IF JsonFenceStarts(text) # {}
    THEN Match(Captured(text, Least(JsonFenceStarts(text)) + 3))
    ELSE IF PlainFenceStarts(text) # {}
    THEN Match(Captured(text, Least(PlainFenceStarts(text)) + 2))
    ELSE NoMatch

\* line 86
jsonString(text) ==
    IF jsonMatch(text).kind = "match" THEN jsonMatch(text).group ELSE text

Infinity == [kind |-> "number", value |-> "Infinity"]

\* a JSON string: quotes around characters that are neither a quote nor a
\* raw line feed
IsStringLiteral(str) ==
    /\ Len(str) >= 2
    /\ str[1] = "quote"
    /\ str[Len(str)] = "quote"
    /\ \A i \in 2..(Len(str) - 1) : str[i] \notin {"quote", "newline"}

\* the characters a string literal denotes
Unescape(str) ==
    [i \in 1..(Len(str) - 2) |->
        IF str[i + 1] = "escaped-newline" THEN "newline" ELSE str[i + 1]]

\* JSON.parse on text already trimmed
JSONparseText(str) ==
    IF str = <<"1">> THEN Returned([kind |-> "number", value |-> "1"])
    ELSE IF str = <<"1e999">> THEN Returned(Infinity)
    ELSE IF str = <<"null">> THEN Returned(Null)
    ELSE IF IsStringLiteral(str)
    THEN Returned([kind |-> "string", value |-> Unescape(str)])
    ELSE Thrown("SyntaxError")

\* a parser that reads the fenced block only
parseFencedOnly(text) ==
    LET parsed == IF jsonMatch(text).kind = "match"
                  THEN JSONparseText(Trim(jsonMatch(text).group))
                  ELSE Thrown("SyntaxError")
    IN  IF parsed.kind = "throw"
        THEN Thrown("Invalid JSON response from AI")
        ELSE parsed

\* lines 80-92
parseText(text) ==
    LET parsed == JSONparseText(Trim(jsonString(text)))
    IN  IF parsed.kind = "throw"
        THEN Thrown("Invalid JSON response from AI")
        ELSE parsed

\* JSON.stringify: null and non-finite numbers as null, a line feed in a
\* string as the escape \n
stringify(value) ==
    IF value = Null \/ value = Infinity THEN <<"null">>
    ELSE IF value.kind = "number" THEN <<value.value>>
    ELSE <<"quote">>
         \o [i \in 1..Len(value.value) |->
                IF value.value[i] = "newline" THEN "escaped-newline"
                ELSE value.value[i]]
         \o <<"quote">>

InitText ==
    /\ OrchestratorIdle
    /\ DeployIdle
    /\ SshIdle
    /\ ApiIdle
    /\ MockIdle
    /\ SiteIdle
    /\ tPc = "start"
    /\ tText \in GeneratorTexts
    /\ tParsed = None
    /\ tReparsed = None

notText ==
    <<orchestratorVars, deployVars, sshVars, apiVars, mockVars, siteVars>>

\* parseJSONResponse(text) settles
ParseText ==
    /\ tPc = "start"
    /\ UNCHANGED notText
    /\ tParsed' = parseText(tText)
    /\ tPc' = "parsed"
    /\ UNCHANGED <<tText, tReparsed>>

\* the parsed payload is serialized and given to parseJSONResponse again
Reparse ==
    /\ tPc = "parsed"
    /\ UNCHANGED notText
    /\ tParsed.kind = "return"
    /\ tReparsed' = [text |-> stringify(tParsed.value),
                     outcome |-> parseText(stringify(tParsed.value))]
    /\ tPc' = "reparsed"
    /\ UNCHANGED <<tText, tParsed>>

NextText ==
    \/ ParseText
    \/ Reparse

SpecText == InitText /\ [][NextText]_vars

\* ------------------------------------------------------------------------
\* Properties of parseJSONResponse
\* ------------------------------------------------------------------------

TextParsed == tPc \in {"parsed", "reparsed"}

Fault == Thrown("Invalid JSON response from AI")

\* a fenced block: an opening ```json or ``` line, the block, a closing ```
\* line; the block of the first json fence, else of the first plain fence
HasFence(text, open) ==
    \E i \in 1..Len(text), k \in 1..(Len(text) - 1) :
        /\ i + Len(open) <= k
        /\ SubSeq(text, i, i + Len(open) - 1) = open
        /\ SubSeq(text, k, k + 1) = <<"newline", "fence">>

FencedBlockPresent(text) ==
    \/ HasFence(text, <<"fence", "json", "newline">>)
    \/ HasFence(text, <<"fence", "newline">>)

Parses(str) == JSONparseText(Trim(str)).kind = "return"

\* C19: parseJSONResponse returns the payload of the fenced block when one
\* is present, and otherwise that of the full trimmed text; it raises the
\* fault only when the fenced block, if present, does not parse and the full
\* trimmed text does not parse either.
C19_FencedFirstElseWhole ==
    TextParsed =>
        /\ FencedBlockPresent(tText) <=> jsonMatch(tText).kind = "match"
        /\ FencedBlockPresent(tText) =>
              tParsed = (IF Parses(jsonMatch(tText).group)
                         THEN JSONparseText(Trim(jsonMatch(tText).group))
                         ELSE Fault)
        /\ ~FencedBlockPresent(tText) =>
              tParsed = (IF Parses(tText) THEN JSONparseText(Trim(tText)) ELSE Fault)
        /\ tParsed = Fault =>
              /\ ~Parses(tText)
              /\ FencedBlockPresent(tText) => ~Parses(jsonMatch(tText).group)

\* a text that is valid JSON as a whole holds no fenced block
C19_ValidJsonHasNoFence ==
    Parses(tText) => ~FencedBlockPresent(tText)

C19_Witness ==
    /\ TextParsed
    /\ tText = <<"fence", "json", "newline", "1", "newline", "fence">>
    /\ tParsed = Returned([kind |-> "number", value |-> "1"])

C19_WitnessWhole ==
    /\ TextParsed
    /\ tText = <<"newline", "quote", "fence", "json", "quote", "newline">>
    /\ tParsed = Returned([kind |-> "string", value |-> <<"fence", "json">>])

C19_WitnessFault ==
    /\ TextParsed
    /\ tText = <<"fence", "newline", "quote", "newline", "fence">>
    /\ tParsed = Fault

\* C20: when a text parsed, serializing the payload and parsing it again
\* returns an equal payload.
C20_RoundTrip ==
    tPc = "reparsed" => tReparsed.outcome = tParsed

\* the same for payloads whose numbers are finite
C20_RoundTripOfFinitePayloads ==
    (tPc = "reparsed" /\ tParsed.value # Infinity) => tReparsed.outcome = tParsed

\* a payload that does not come back
C20_InfinityBecomesNull ==
    /\ tPc = "reparsed"
    /\ tText = <<"1e999">>
    /\ tParsed = Returned(Infinity)
    /\ tReparsed = [text |-> <<"null">>, outcome |-> Returned(Null)]

\* ------------------------------------------------------------------------
\* An agent's execute on an AIService with or without a provider
\* ------------------------------------------------------------------------

\* a prompt is the sequence of its pieces: fixed text of the template and the
\* values put in for the placeholders
PLANNING_AGENT_PROMPT ==
    <<"You are a website", "planning", "expert.", "{{businessName}}",
      "{{businessType}}", "{{description}}">>

DESIGN_AGENT_PROMPT ==
    <<"You are a web design expert.", "{{businessName}}", "{{businessType}}",
      "{{industry}}">>

CONTENT_AGENT_PROMPT ==
    <<"You are an expert content writer.", "{{businessName}}",
      "{{businessType}}", "{{pages}}">>

JoesPizza ==
    [businessName |-> "Joe's Pizza", businessType |-> "restaurant",
     description |-> "Family pizza restaurant in Brooklyn"]

AgentInputs ==
    [businessName : {"Joe's Pizza", "Acme event planning"},
     businessType : {"restaurant", "planning"},
     description : {"Family pizza restaurant in Brooklyn",
                    "Wedding Planning since 1990"}]

\* the pieces of text that hold the lower-case word planning
HoldPlanning == {"planning", "Acme event planning"}

\* prompt.includes('planning')
IncludesPlanning(prompt) ==
    \E i \in 1..Len(prompt) : prompt[i] \in HoldPlanning

\* substituteVariables: every {{key}} of the template becomes its value
substituteVariables(template, variables) ==
    [i \in 1..Len(template) |->
        IF template[i] \in DOMAIN variables
        THEN variables[template[i]]
        ELSE template[i]]

\* the page slugs of the mock planning payload
MockSlugs == <<"home", "about", "services", "contact">>

\* JSON.stringify(value): a text without fence whose body is the value
JSONstringify(value) ==
    [fence |-> "none", body |-> [json |-> TRUE, value |-> value]]

\* a mock that looks for the capitalised word
mockResponseCapitalised(prompt) ==
    IF \E i \in 1..Len(prompt) : prompt[i] = "Wedding Planning since 1990"
    THEN JSONstringify([kind |-> "object", confidence |-> Num(102),
                        pages |-> Arr(MockSlugs)])
    ELSE JSONstringify([kind |-> "object", confidence |-> Num(96),
                        pages |-> Undefined])

\* lines 54-78: the planning payload (confidence 0.85) when the prompt holds
\* 'planning', else {confidence: 0.8, data: 'Mock response'}
mockResponse(prompt) ==
    IF IncludesPlanning(prompt)
    THEN JSONstringify([kind |-> "object", confidence |-> Num(102),
                        pages |-> Arr(MockSlugs)])
    ELSE JSONstringify([kind |-> "object", confidence |-> Num(96),
                        pages |-> Undefined])

ProviderConfigs == [provider : {"anthropic", "openai"}, apiKey : {"", "sk-key"}]

\* lines 12-14, 19: this.anthropic is set and used
UsesAnthropic(config) == config.provider = "anthropic" /\ config.apiKey # ""

\* what the provider can do when it is called
ProviderOutcomes ==
    GeneratorOutcomes({[kind |-> "object", confidence |-> Num(90),
                        pages |-> Arr(<<"home">>)]})

InitMock ==
    /\ OrchestratorIdle
    /\ DeployIdle
    /\ SshIdle
    /\ ApiIdle
    /\ TextIdle
    /\ SiteIdle
    /\ mPc = "start"
    /\ mConfig \in ProviderConfigs
    /\ mAgent \in Agents
    /\ mInput \in AgentInputs
    /\ mPrompt = <<>>
    /\ mResponse = None
    /\ mResult = None

notMock ==
    <<orchestratorVars, deployVars, sshVars, apiVars, textVars, siteVars>>

\* the variables each agent hands to substituteVariables
PromptVariables(agent, input) ==
    CASE agent = "planning" ->
            [k \in {"{{businessName}}", "{{businessType}}", "{{description}}"} |->
                CASE k = "{{businessName}}" -> input.businessName
                  [] k = "{{businessType}}" -> input.businessType
                  [] k = "{{description}}" -> input.description]
      [] agent = "design" ->
            [k \in {"{{businessName}}", "{{businessType}}", "{{industry}}"} |->
                CASE k = "{{businessName}}" -> input.businessName
                  [] k = "{{businessType}}" -> input.businessType
                  [] k = "{{industry}}" -> input.businessType]
      [] agent = "content" ->
            [k \in {"{{businessName}}", "{{businessType}}", "{{pages}}"} |->
                CASE k = "{{businessName}}" -> input.businessName
                  [] k = "{{businessType}}" -> input.businessType
                  [] k = "{{pages}}" -> "[home, about, services, contact]"]

PromptTemplate(agent) ==
    CASE agent = "planning" -> PLANNING_AGENT_PROMPT
      [] agent = "design" -> DESIGN_AGENT_PROMPT
      [] agent = "content" -> CONTENT_AGENT_PROMPT

\* execute builds its prompt
BuildPrompt ==
    /\ mPc = "start"
    /\ UNCHANGED notMock
    /\ mPrompt' = substituteVariables(PromptTemplate(mAgent),
                                      PromptVariables(mAgent, mInput))
    /\ mPc' = "prompt"
    /\ UNCHANGED <<mConfig, mAgent, mInput, mResponse, mResult>>

\* AIService.ts lines 17-25: generateCompletion asks the provider, or falls
\* back to mockResponse(prompt) when none is configured
Generate ==
    /\ mPc = "prompt"
    /\ UNCHANGED notMock
    /\ IF UsesAnthropic(mConfig)
       THEN mResponse' \in ProviderOutcomes
       ELSE mResponse' = [kind |-> "text", text |-> mockResponse(mPrompt)]
    /\ mPc' = "generated"
    /\ UNCHANGED <<mConfig, mAgent, mInput, mPrompt, mResult>>

\* execute parses the response and returns its AgentOutput
Execute ==
    /\ mPc = "generated"
    /\ UNCHANGED notMock
    /\ mResult' = CASE mAgent = "planning" -> PlanningAgentExecute(mResponse)
                    [] mAgent = "design" -> DesignAgentExecute(mResponse)
                    [] mAgent = "content" ->
                          ContentAgentExecute(mResponse, Arr(MockSlugs))
    /\ mPc' = "done"
    /\ UNCHANGED <<mConfig, mAgent, mInput, mPrompt, mResponse>>

NextMock ==
    \/ BuildPrompt
    \/ Generate
    \/ Execute

SpecMock == InitMock /\ [][NextMock]_vars

\* ------------------------------------------------------------------------
\* Properties of the agents on the mock generator
\* ------------------------------------------------------------------------

MockPlanningDone ==
    /\ mPc = "done"
    /\ mAgent = "planning"
    /\ ~UsesAnthropic(mConfig)

HasSlug(r, slug) ==
    /\ r.data # Null
    /\ r.data.pages.kind = "array"
    /\ \E i \in 1..Len(r.data.pages.items) : r.data.pages.items[i] = slug

\* C21: the Planning agent, run on the Joe's Pizza input with the mock
\* generator, returns success=true with a page list that holds the slugs
\* home and contact.
C21_MockPlanningHasHomeAndContact ==
    (MockPlanningDone /\ mInput = JoesPizza) =>
        /\ mResult.success
        /\ HasSlug(mResult, "home")
        /\ HasSlug(mResult, "contact")

\* the same for every input: the planning template itself holds 'planning'
C21_MockPlanningOnEveryInput ==
    MockPlanningDone =>
        /\ mResult.success
        /\ mResult.confidence = Num(102)
        /\ mResult.data.pages = Arr(MockSlugs)

C21_Witness ==
    /\ MockPlanningDone
    /\ mInput = JoesPizza
    /\ mPrompt = <<"You are a website", "planning", "expert.", "Joe's Pizza",
                   "restaurant", "Family pizza restaurant in Brooklyn">>
    /\ mResult.data.pages = Arr(<<"home", "about", "services", "contact">>)

\* ------------------------------------------------------------------------
\* Further properties of orchestrate
\* ------------------------------------------------------------------------

RanAgents == {a \in Agents : Ran(ResultOf(a))}

\* a number of [0,1]
InUnitInterval(c) == IsNum(c) /\ 0 <= c.val /\ c.val <= 120

\* C22: every AgentOutput has a confidence within [0,1], which is 0 when
\* success=false, and the overallConfidence of every result is within [0,1].
C22_ConfidenceInUnitInterval ==
    /\ \A a \in RanAgents :
          /\ InUnitInterval(ResultOf(a).confidence)
          /\ ~ResultOf(a).success => ResultOf(a).confidence = Num(0)
    /\ Finished => InUnitInterval(result.overallConfidence)

\* the part that holds: a failed AgentOutput has confidence 0, and a result
\* built by the abort or the catch block has overallConfidence 0
C22_FailureHasZeroConfidence ==
    /\ \A a \in RanAgents :
          ~ResultOf(a).success => ResultOf(a).confidence = Num(0)
    /\ (Finished /\ (PlanningFailed \/ listenerThrew)) =>
          result.overallConfidence = Num(0)

\* a result whose overallConfidence is 1.5
C22_OverallConfidenceAboveOne ==
    /\ Finished
    /\ result.success
    /\ result.overallConfidence = Num(180)

\* a result whose overallConfidence is not a number
C22_OverallConfidenceNaN ==
    /\ Finished
    /\ result.success
    /\ result.overallConfidence = NaN

ItemsOf(a) == {a.items[i] : i \in 1..Len(a.items)}

\* C23: in a result that carries both siteArchitecture and content, every
\* content page slug is among the slugs of siteArchitecture.pages.
C23_ContentSlugsInArchitecture ==
    (/\ Finished
     /\ result.siteArchitecture.kind = "architecture"
     /\ result.content.kind = "content"
     /\ result.content.pages.kind = "array") =>
        /\ result.siteArchitecture.pages.kind = "array"
        /\ ItemsOf(result.content.pages) \subseteq ItemsOf(result.siteArchitecture.pages)

\* a result whose content has a page the architecture has not
C23_ForeignContentPage ==
    /\ Finished
    /\ result.success
    /\ result.siteArchitecture.pages = Arr(<<"home">>)
    /\ result.content.pages = Arr(<<"contact">>)

\* C26: the Content call is started while the Design call is in flight.
C26_ContentStartsWhileDesignInFlight ==
    [][("content" \notin inflight /\ "content" \in inflight')
          => "design" \in inflight']_vars

\* what the code does: the Design call is awaited before Content is called,
\* so at most one agent call is in flight
C26_AtMostOneInFlight ==
    /\ Cardinality(inflight) <= 1
    /\ "content" \in inflight => (Ran(designResult) /\ "design" \notin inflight)

C26_ContentAfterDesignSettled ==
    /\ inflight = {"content"}
    /\ Ran(designResult)

WasInvoked(a) == \E i \in 1..Len(invoked) : invoked[i] = a

\* C27: the Content agent is invoked only after Planning returned
\* success=true, and the pages it is passed are those of that Planning result.
C27_ContentGetsPlanningPages ==
    /\ WasInvoked("content") =>
          /\ PlanningSucceeded
          /\ "planning" \notin inflight
          /\ contentPages = planningResult.data.pages
    /\ ~WasInvoked("content") => contentPages = NotRun

C27_Witness ==
    /\ WasInvoked("content")
    /\ "content" \in inflight
    /\ contentPages = Arr(<<"home", "contact">>)

\* C28: every execute that ran called the generator exactly once, so the run
\* made at most three generator calls, and exactly one when Planning failed.
C28_OneGeneratorCallPerExecute ==
    /\ genCalls = Cardinality(RanAgents)
    /\ \A a \in RanAgents : generated[a] # "none"
    /\ genCalls <= 3
    /\ PlanningFailed => genCalls = 1

\* what the code does: no execute calls the generator more than once, and
\* only a Content call whose pages argument is no array calls it not at all
C28_AtMostOneCallPerExecute ==
    /\ genCalls <= Cardinality(RanAgents)
    /\ genCalls <= 3
    /\ PlanningFailed => genCalls = 1
    /\ (Ran(contentResult) => contentPages.kind = "array")
          => genCalls = Cardinality(RanAgents)

\* a Content call that ended without calling the generator
C28_ContentWithoutCall ==
    /\ Ran(contentResult)
    /\ generated["content"] = "none"
    /\ genCalls = 2
    /\ contentResult.errors = Arr(<<"TypeError">>)

\* a Planning payload that parsed and reports a confidence below 0.75
LowConfidencePlan ==
    /\ Ran(planningResult)
    /\ planningResult.success
    /\ IsNum(planningResult.confidence)
    /\ planningResult.confidence.val < ConfidenceThreshold

\* C29: a Planning payload with a confidence below the threshold is returned
\* as success=true with that confidence and a warning, the generator is not
\* called again for it, and the run goes on to Design and Content and counts
\* that confidence in the mean.
C29_LowConfidencePlanContinues ==
    /\ LowConfidencePlan <=> warned
    /\ (LowConfidencePlan /\ pc = "design_start") => genCalls = 1
    /\ (LowConfidencePlan /\ Finished) =>
          /\ WasInvoked("design")
          /\ WasInvoked("content")
          /\ confidences[1] = planningResult.confidence
          /\ result.overallConfidence = MeanOfSucceeded

\* the same on the runs in which no progress listener threw
C29_ContinuesWithoutListenerFault ==
    /\ LowConfidencePlan <=> warned
    /\ (LowConfidencePlan /\ pc = "design_start") => genCalls = 1
    /\ (LowConfidencePlan /\ Finished /\ ~listenerThrew) =>
          /\ invoked = <<"planning", "design", "content">>
          /\ confidences[1] = planningResult.confidence
          /\ result.overallConfidence = MeanOfSucceeded

\* a run that stopped after a low-confidence plan
C29_StoppedAfterLowConfidencePlan ==
    /\ LowConfidencePlan
    /\ Finished
    /\ listenerThrew
    /\ invoked = <<"planning">>

\* C30: a failure caused by a generateCompletion fault is of kind
\* NetworkError and one caused by a parse fault of kind
\* MalformedResponseError.
C30_FaultKindsAreDistinctClasses ==
    \A a \in RanAgents :
        ~ResultOf(a).success =>
            /\ generated[a] = "fault" =>
                  ErrorClass(ResultOf(a).errors.items[1]) = "NetworkError"
            /\ generated[a] = "invalid" =>
                  ErrorClass(ResultOf(a).errors.items[1]) = "MalformedResponseError"

\* what the code does: both faults are plain Errors, told apart by their
\* message text only
C30_FaultKindsDifferByMessageOnly ==
    \A a \in RanAgents :
        ~ResultOf(a).success =>
            /\ generated[a] = "fault" =>
                  /\ ErrorClass(ResultOf(a).errors.items[1]) = "Error"
                  /\ ResultOf(a).errors = Arr(<<"AI generation failed">>)
            /\ generated[a] = "invalid" =>
                  /\ ErrorClass(ResultOf(a).errors.items[1]) = "Error"
                  /\ ResultOf(a).errors = Arr(<<"Invalid JSON response from AI">>)

\* ------------------------------------------------------------------------
\* Further properties of a deploySite run
\* ------------------------------------------------------------------------

\* the six steps of the canonical order
CanonicalSteps ==
    <<"verify", "core_install", "theme_install", "plugins_install",
      "content_push", "permalinks">>

\* the steps of the run that completed, in the order they were issued
RECURSIVE CompletedSteps(_)
CompletedSteps(cs) ==
    IF cs = <<>> THEN <<>>
    ELSE LET rest == CompletedSteps(SubSeq(cs, 1, Len(cs) - 1))
             c == cs[Len(cs)]
         IN  IF c.status = "completed" /\ (rest = <<>> \/ rest[Len(rest)] # c.step)
             THEN Append(rest, c.step)
             ELSE rest

\* C24: a run that persisted DEPLOYED has executed the six canonical steps,
\* in their order.
C24_DeployedRanSixSteps ==
    Persisted("DEPLOYED") => CompletedSteps(commands) = CanonicalSteps

\* what the code does: the steps of a deployed run are the core install, the
\* theme install when a theme is given and the plugin installs when plugins
\* are given, in that order, and nothing else
C24_DeployedRanInstallStepsOnly ==
    Persisted("DEPLOYED") =>
        CompletedSteps(commands) =
            <<"core_install">>
            \o (IF plan.theme = "" THEN <<>> ELSE <<"theme_install">>)
            \o (IF Len(plan.plugins) = 0 THEN <<>> ELSE <<"plugins_install">>)

C24_DeployedAfterThreeSteps ==
    /\ DeployDone
    /\ persisted = <<"DEPLOYED">>
    /\ CompletedSteps(commands) =
          <<"core_install", "theme_install", "plugins_install">>

\* C25: at every moment at most one remote command is in flight, and it is
\* the one issued last: every command before it has settled.
C25_OneCommandInFlight ==
    /\ Cardinality(Steps("running")) <= 1
    /\ \A i \in 1..Len(commands) :
          i < Len(commands) => commands[i].status # "running"
    /\ dPc \in {"core", "theme", "plugin"} <=> Steps("running") # {}

C25_Witness ==
    /\ dPc = "plugin"
    /\ pluginIndex = MaxPlugins
    /\ Steps("running") = {Len(commands)}
    /\ Steps("completed") = 1..(Len(commands) - 1)
    /\ Len(commands) = 2 + MaxPlugins

\* ------------------------------------------------------------------------
\* Progress notifications of orchestrate
\* ------------------------------------------------------------------------

\* the agents a run invokes when nothing is registered for 'progress':
\* Planning, and Design and Content after a successful Planning
AgentsOfRun ==
    IF PlanningFailed THEN <<"planning">>
    ELSE <<"planning", "design", "content">>

\* the value a run returns when nothing is registered for 'progress', from
\* the outputs of its agents (lines 42 and 75-82)
ResultOfRun ==
    IF PlanningFailed
    THEN PlanningAborted(planningResult.errors.items).result
    ELSE [kind |-> "result",
          success |-> (Succeeded = Agents),
          siteArchitecture |-> planningResult.data,
          content |-> IF contentResult.success THEN contentResult.data ELSE Null,
          design |-> IF designResult.success THEN designResult.data ELSE Null,
          overallConfidence |-> Mean(confidences),
          errors |-> errors]

\* C31: whatever the progress sink does with a notification (accept, ignore,
\* throw), the finished run invoked the agents it invokes with no sink and
\* resolved with the result it returns with no sink.
C31_ProgressIsFireAndForget ==
    Finished =>
        /\ invoked = AgentsOfRun
        /\ result = ResultOfRun

\* what the code does: the run is independent of the sink as long as no
\* listener throws
C31_IndependentOfReturningSink ==
    (Finished /\ ~listenerThrew) =>
        /\ invoked = AgentsOfRun
        /\ result = ResultOfRun

\* a listener that throws on the first notification ends the run before any
\* agent was invoked
C31_ListenerFaultStopsRun ==
    /\ Finished
    /\ listenerThrew
    /\ invoked = <<>>
    /\ result.errors = <<"listener error">>

\* an exception left the try block before 'complete' was emitted: every
\* fault of an agent is caught inside its execute, so it is a listener's, and
\* it ended the run at the notification it was thrown from
ExceptionBeforeComplete ==
    /\ listenerThrew
    /\ emitted[Len(emitted)].step # "complete"

EmittedComplete == \E i \in 1..Len(emitted) : emitted[i].step = "complete"

SshSettled == sOutcome.kind \in {"resolved", "rejected"}

\* C32: the call opens its session once, and whenever it has settled (exit 0,
\* non-zero exit, exec error, connection failure) the session has been
\* disconnected: no session is open or being opened after the call settled.
C32_SessionClosedWhenSettled ==
    /\ SshSettled => sSession = "closed"
    /\ SshDone <=> SshSettled
    /\ sSession \in {"connecting", "open", "lost"} => ~SshSettled

C32_Witness ==
    /\ SshDone
    /\ sRemote.exec = "error"
    /\ sOutcome.kind = "rejected"
    /\ sSession = "closed"

C32_WitnessAfterLoss ==
    /\ SshDone
    /\ sRemote.exec = "stream"
    /\ sRemote.code = -2
    /\ sSession = "closed"

C33_PendingCanProceed == SshSettled \/ ENABLED NextSSH

EventSteps == [i \in 1..Len(events) |-> events[i].step]

\* the steps a run enters, in the order of lines 22-46
StepOrder == <<"init", "core_install", "theme_install", "plugins_install">>

\* s, without the elements outside `keep`
RECURSIVE Restrict(_, _)
Restrict(s, keep) ==
    IF s = <<>> THEN <<>>
    ELSE IF Head(s) \in keep THEN <<Head(s)>> \o Restrict(Tail(s), keep)
    ELSE Restrict(Tail(s), keep)

TerminalEvents == {"completed", "failed"}

\* the step events emitted so far are 'init' and then the steps entered, in
\* the order of StepOrder, each once
StepEventsInOrder ==
    /\ Len(events) > 0 => events[1].step = "init"
    /\ \A i, j \in 1..Len(events) :
          (i < j /\ EventSteps[j] \notin TerminalEvents) =>
              \E k, l \in 1..Len(StepOrder) :
                  /\ k < l
                  /\ StepOrder[k] = EventSteps[i]
                  /\ StepOrder[l] = EventSteps[j]

\* C34: the events of a run are 'init', then the steps entered in their
\* order; a finished run's last event is 'completed' or 'failed' and it
\* emitted only one of the two; 'completed' comes after DEPLOYED was written.
C34_EventsInCausalOrder ==
    /\ StepEventsInOrder
    /\ Emitted("completed") => Persisted("DEPLOYED")
    /\ DeployDone =>
          /\ EventSteps[Len(events)] \in TerminalEvents
          /\ Len(Restrict(EventSteps, TerminalEvents)) = 1

\* what the code does: the order of the step events and 'completed' after
\* DEPLOYED hold on every run, the terminal event on the runs in which no
\* listener threw
C34_OrderWithoutListenerFault ==
    /\ StepEventsInOrder
    /\ Emitted("completed") => Persisted("DEPLOYED")
    /\ (DeployDone /\ ~dListenerThrew) =>
          /\ EventSteps[Len(events)] \in TerminalEvents
          /\ Len(Restrict(EventSteps, TerminalEvents)) = 1

\* a run that emitted 'completed' and then 'failed'
C34_CompletedThenFailed ==
    /\ DeployDone
    /\ Len(events) >= 2
    /\ EventSteps[Len(events) - 1] = "completed"
    /\ EventSteps[Len(events)] = "failed"

\* a run that ended on its 'init' event
C34_EndedOnInit ==
    /\ DeployDone
    /\ EventSteps = <<"init">>

\* C35: a finished run has one terminal status, and deploySite returns: a
\* failed run resolves with its status instead of rejecting with the error
\* of the step.
C35_FailureIsReturnedAsStatus ==
    DeployDone =>
        /\ Len(persisted) = 1
        /\ dOutcome.kind = "resolved"

\* what the code does: a run whose step failed rejects, and with the error
\* the step raised unless a listener threw on 'failed'
C35_FailedRunRejects ==
    (DeployDone /\ SomeStepFailed) =>
        /\ dOutcome.kind = "rejected"
        /\ ~dListenerThrew =>
              /\ dOutcome.error.name = "SSHError"
              /\ persisted = <<"FAILED">>

C35_RejectedWithSSHError ==
    /\ DeployDone
    /\ ~dListenerThrew
    /\ persisted = <<"FAILED">>
    /\ dOutcome = Rejected(SSHError(CommandFailed(1, <<"a">>), wpCoreInstall))

\* C36: once DEPLOYED has been written, the run never writes FAILED.
C36_TerminalStatusWrittenOnce ==
    Persisted("DEPLOYED") => ~Persisted("FAILED")

\* what the code does: FAILED follows DEPLOYED only when a listener threw on
\* 'completed'
C36_WrittenOnceWithoutListenerFault ==
    (Persisted("DEPLOYED") /\ ~dListenerThrew) => ~Persisted("FAILED")

C36_FailedAfterDeployed ==
    /\ DeployDone
    /\ persisted = <<"DEPLOYED", "FAILED">>
    /\ AllStepsCompleted
    /\ dOutcome = Rejected(ListenerError)


\* ------------------------------------------------------------------------
\* The site routes: one request through authenticate and its handler
\* ------------------------------------------------------------------------

Users == {"u1", "u2"}

\* tokens jwt.verify accepts, signed by generateToken({id: userId}), and
\* tokens it rejects
ValidTokens == {"jwt-u1", "jwt-u2"}
InvalidTokens == {"expired", "garbage"}

\* the payload of a token jwt.verify accepted
Payload(token) == [id |-> IF token = "jwt-u1" THEN "u1" ELSE "u2"]

\* a header value is a string, here the sequence of its parts; the header
\* of a request that has none is undefined
Header(parts) == [kind |-> "string", parts |-> parts]

Headers ==
    {Undefined, Header(<<>>), Header(<<"Bearer ">>)}
    \cup {Header(<<"Bearer ", t>>) : t \in ValidTokens \cup InvalidTokens}
    \cup {Header(<<t>>) : t \in ValidTokens \cup InvalidTokens}
    \cup {Header(<<"Basic ", t>>) : t \in ValidTokens \cup InvalidTokens}

\* String.prototype.replace(pattern, ''): the first occurrence is removed
RECURSIVE ReplaceFirst(_, _)
ReplaceFirst(parts, pattern) ==
    IF parts = <<>> THEN <<>>
    ELSE IF Head(parts) = pattern THEN Tail(parts)
    ELSE <<Head(parts)>> \o ReplaceFirst(Tail(parts), pattern)

\* req.header('Authorization')?.replace('Bearer ', '')
BearerToken(header) ==
    IF header = Undefined THEN Undefined
    ELSE Header(ReplaceFirst(header.parts, "Bearer "))

\* !token: undefined or the empty string
NoToken(token) == token = Undefined \/ token.parts = <<>>

\* jwt.verify(token, JWT_SECRET)
jwtVerify(token) ==
    IF Len(token.parts) = 1 /\ token.parts[1] \in ValidTokens
    THEN Returned(Payload(token.parts[1]))
    ELSE Thrown("JsonWebTokenError")

\* new AppError(message, statusCode)
AppError(message, statusCode) ==
    [name |-> "AppError", message |-> message, statusCode |-> statusCode]

\* next(): no error
NoError == Undefined

\* a middleware that lets a token through when jwt.verify throws
authenticateWithoutVerify(header) ==
    LET token == BearerToken(header)
    IN  IF NoToken(token)
        THEN [user |-> None,
              calls |-> <<AppError("Authentication required", 401)>>]
        ELSE LET v == jwtVerify(token)
             IN  IF v.kind = "return"
                 THEN [user |-> v.value, calls |-> <<NoError>>]
                 ELSE [user |-> Payload("jwt-u1"), calls |-> <<NoError>>]

\* authenticate: what it leaves in req.user and the calls of next it makes
authenticate(header) ==
    LET token == BearerToken(header)
    IN  IF NoToken(token)
        THEN [user |-> None,
              calls |-> <<AppError("Authentication required", 401)>>]
        ELSE LET v == jwtVerify(token)
             IN  IF v.kind = "return"
                 THEN [user |-> v.value, calls |-> <<NoError>>]
                 ELSE [user |-> None,
                       calls |-> <<AppError("Invalid token", 401)>>]

\* the site table: the ids of the rows it can hold; the row prisma.site.create
\* adds gets an id that is not in the table
SiteIds == {"s1", "s2", "s3"}
NewSiteId == "s3"

Site(id, userId, status) == [id |-> id, userId |-> userId, status |-> status]

SiteTables ==
    {t \in [SiteIds -> {Null} \cup [id : SiteIds, userId : Users,
                                     status : {"GENERATING", "DEPLOYED"}]] :
        /\ t[NewSiteId] = Null
        /\ \A i \in SiteIds : t[i] # Null => t[i].id = i}

\* prisma.site.findFirst({where: {id, userId}})
findFirst(table, id, userId) ==
    IF table[id] # Null /\ table[id].userId = userId THEN table[id] ELSE Null

\* prisma.site.findMany({where: {userId}})
findMany(table, userId) ==
    {table[i] : i \in {j \in SiteIds : table[j] # Null /\ table[j].userId = userId}}

\* a getSite that looks the site up by its id alone
getSiteOfAnyUser(table, siteId, userId) ==
    IF table[siteId] = Null
    THEN Rejected(AppError("Site not found", 404))
    ELSE Resolved(table[siteId])

\* SiteService.getSite
getSite(table, siteId, userId) ==
    LET site == findFirst(table, siteId, userId)
    IN  IF site = Null
        THEN Rejected(AppError("Site not found", 404))
        ELSE Resolved(site)

\* what the AI engine answers to the call that starts generation: a 2xx
\* response whose body is an object, with or without job_id, or a failure
\* (no response, or a status axios rejects)
EngineReplies ==
    [ok : {TRUE}, job_id : {Undefined, [kind |-> "string", value |-> "job-1"]}]
    \cup [ok : {FALSE}, cause : {"no response", "status 500"}]

SiteRequests ==
    [route : {"generate", "list", "get"}, header : Headers, id : {"s1", "s2"}]

Response(status, body) == [status |-> status, body |-> body]

\* errorHandler: the response for an error passed to next
errorHandler(err) ==
    Response(err.statusCode,
             [status |-> "error", statusCode |-> err.statusCode,
              message |-> err.message])

InitSite ==
    /\ OrchestratorIdle
    /\ DeployIdle
    /\ SshIdle
    /\ ApiIdle
    /\ TextIdle
    /\ MockIdle
    /\ qPc = "received"
    /\ qReq \in SiteRequests
    /\ qUser = None
    /\ qNext = <<>>
    /\ qHandler = <<>>
    /\ qSites \in SiteTables
    /\ qEngine = "none"
    /\ qOutcome = None
    /\ qRes = None

notSite ==
    <<orchestratorVars, deployVars, sshVars, apiVars, textVars, mockVars>>

\* router.use(authenticate): the middleware runs first; an error passed to
\* next goes to errorHandler and no route handler runs
Authenticate ==
    /\ qPc = "received"
    /\ UNCHANGED notSite
    /\ LET a == authenticate(qReq.header)
       IN  /\ qUser' = a.user
           /\ qNext' = a.calls
           /\ IF a.calls[1] = NoError
              THEN /\ qPc' = "route"
                   /\ UNCHANGED qRes
              ELSE /\ qPc' = "done"
                   /\ qRes' = errorHandler(a.calls[1])
    /\ UNCHANGED <<qReq, qHandler, qSites, qEngine, qOutcome>>

\* createSite, part_006 lines 16-24: the record is created with status
\* GENERATING
CreateSite ==
    /\ qPc = "route"
    /\ qReq.route = "generate"
    /\ UNCHANGED notSite
    /\ qHandler' = Append(qHandler, "createSite")
    /\ qSites' = [qSites EXCEPT ![NewSiteId] =
                     Site(NewSiteId, qUser.id, "GENERATING")]
    /\ qPc' = "created"
    /\ UNCHANGED <<qReq, qUser, qNext, qEngine, qOutcome, qRes>>

\* lines 27-35: the call to the AI engine goes out
CallEngine ==
    /\ qPc = "created"
    /\ UNCHANGED notSite
    /\ qEngine' = "pending"
    /\ qPc' = "engine"
    /\ UNCHANGED <<qReq, qUser, qNext, qHandler, qSites, qOutcome, qRes>>

\* the record keeps its status when the engine call failed
EngineSettleKeepsStatus ==
    /\ qPc = "engine"
    /\ UNCHANGED notSite
    /\ \E reply \in EngineReplies :
          IF reply.ok
          THEN /\ qEngine' = "ok"
               /\ qOutcome' = Resolved([site |-> qSites[NewSiteId],
                                        job_id |-> reply.job_id])
               /\ qRes' = Response(201, qOutcome'.value)
          ELSE /\ qEngine' = "failed"
               /\ qOutcome' =
                     Rejected(AppError("Failed to start site generation", 500))
               /\ qRes' = errorHandler(qOutcome'.error)
    /\ qPc' = "done"
    /\ UNCHANGED <<qReq, qUser, qNext, qHandler, qSites>>

\* lines 36-48 and the controller (part_010 lines 9-13): the engine call
\* settles; on a failure the record is set to FAILED and an AppError raised
EngineSettle ==
    /\ qPc = "engine"
    /\ UNCHANGED notSite
    /\ \E reply \in EngineReplies :
          IF reply.ok
          THEN /\ qEngine' = "ok"
               /\ qOutcome' = Resolved([site |-> qSites[NewSiteId],
                                        job_id |-> reply.job_id])
               /\ qRes' = Response(201, qOutcome'.value)
               /\ UNCHANGED qSites
          ELSE /\ qEngine' = "failed"
               /\ qSites' = [qSites EXCEPT ![NewSiteId].status = "FAILED"]
               /\ qOutcome' =
                     Rejected(AppError("Failed to start site generation", 500))
               /\ qRes' = errorHandler(qOutcome'.error)
    /\ qPc' = "done"
    /\ UNCHANGED <<qReq, qUser, qNext, qHandler>>

\* listSites (part_006 lines 51-56, part_010 lines 16-23)
ListSites ==
    /\ qPc = "route"
    /\ qReq.route = "list"
    /\ UNCHANGED notSite
    /\ qHandler' = Append(qHandler, "listSites")
    /\ qOutcome' = Resolved(findMany(qSites, qUser.id))
    /\ qRes' = Response(200, qOutcome'.value)
    /\ qPc' = "done"
    /\ UNCHANGED <<qReq, qUser, qNext, qSites, qEngine>>

\* getSite (part_006 lines 58-64, part_010 lines 25-32)
GetSite ==
    /\ qPc = "route"
    /\ qReq.route = "get"
    /\ UNCHANGED notSite
    /\ qHandler' = Append(qHandler, "getSite")
    /\ qOutcome' = getSite(qSites, qReq.id, qUser.id)
    /\ qRes' = IF qOutcome'.kind = "resolved"
               THEN Response(200, qOutcome'.value)
               ELSE errorHandler(qOutcome'.error)
    /\ qPc' = "done"
    /\ UNCHANGED <<qReq, qUser, qNext, qSites, qEngine>>

NextSite ==
    \/ Authenticate
    \/ CreateSite
    \/ CallEngine
    \/ EngineSettle
    \/ ListSites
    \/ GetSite

SpecSite == InitSite /\ [][NextSite]_vars

\* ------------------------------------------------------------------------
\* Properties of a request to the site routes
\* ------------------------------------------------------------------------

RequestDone == qPc = "done"

HandlerRan(handler) == \E i \in 1..Len(qHandler) : qHandler[i] = handler

C38_WitnessGenerating ==
    /\ RequestDone
    /\ HandlerRan("createSite")
    /\ qEngine = "ok"
    /\ qSites[NewSiteId].status = "GENERATING"
    /\ qRes.status = 201

\* the site with the request's id is in the table and owned by the user
OwnSiteExists ==
    /\ qSites[qReq.id] # Null
    /\ qSites[qReq.id].userId = qUser.id

\* C39: getSite returns a site only if the site with that id is owned by
\* that user, and then that site; otherwise it raises 'Site not found' (404),
\* the same for a site that does not exist and for a site of another user.
C39_GetSiteReturnsOwnSiteOnly ==
    (RequestDone /\ HandlerRan("getSite")) =>
        IF OwnSiteExists
        THEN /\ qOutcome = Resolved(qSites[qReq.id])
             /\ qRes = Response(200, qSites[qReq.id])
        ELSE /\ qOutcome = Rejected(AppError("Site not found", 404))
             /\ qRes = errorHandler(AppError("Site not found", 404))

\* a request for the site of another user is answered like one for a site
\* that does not exist
C39_Witness ==
    /\ RequestDone
    /\ HandlerRan("getSite")
    /\ qSites[qReq.id] # Null
    /\ qSites[qReq.id].userId # qUser.id
    /\ qRes.status = 404
    /\ qRes.body.message = "Site not found"

C39_WitnessOwn ==
    /\ RequestDone
    /\ HandlerRan("getSite")
    /\ OwnSiteExists
    /\ qRes.status = 200

\* the request carries a token jwt.verify accepts
TokenVerifies ==
    /\ qReq.header # Undefined
    /\ \E t \in ValidTokens :
          qReq.header.parts \in {<<"Bearer ", t>>, <<t>>}

\* the request carries no token: no header, an empty one, or the bare scheme
TokenMissing ==
    \/ qReq.header = Undefined
    \/ qReq.header.parts \in {<<>>, <<"Bearer ">>}

\* C40: no handler runs unless the token verified; authenticate calls next
\* exactly once: without an error and with req.user set when the token
\* verifies, with 401 'Authentication required' when it is missing, with 401
\* 'Invalid token' when verification fails.
C40_HandlersNeedVerifiedToken ==
    /\ Len(qHandler) > 0 => TokenVerifies
    /\ Len(qNext) <= 1
    /\ qPc # "received" =>
          /\ Len(qNext) = 1
          /\ TokenVerifies =>
                /\ qNext = <<NoError>>
                /\ qUser \in [id : Users]
          /\ TokenMissing =>
                qNext = <<AppError("Authentication required", 401)>>
          /\ (~TokenVerifies /\ ~TokenMissing) =>
                qNext = <<AppError("Invalid token", 401)>>
          /\ ~TokenVerifies => (RequestDone /\ qRes.status = 401)

C40_Witness ==
    /\ RequestDone
    /\ qReq.header = Header(<<"Bearer ", "expired">>)
    /\ qNext = <<AppError("Invalid token", 401)>>
    /\ qHandler = <<>>
    /\ qRes.status = 401

C40_WitnessVerified ==
    /\ RequestDone
    /\ qReq.header = Header(<<"Bearer ", "jwt-u1">>)
    /\ qNext = <<NoError>>
    /\ qUser = [id |-> "u1"]
    /\ qHandler = <<"listSites">>

====
